---------------------------- MODULE Spec2Model ----------------------------
(***************************************************************************)
(* A model of the Landstalker asset codecs: the LZ77 codec, the blockset   *)
(* codec, the Tilemap2D codec, the Tilemap3D codec and the context Huffman *)
(* string codec.  Every codec is a pure function of its input; each is     *)
(* written here as an operator that computes what the Python code          *)
(* computes, Python exceptions included (a result record carries ok and    *)
(* err).  Python sequences are indexed from 0 and TLA+ sequences from 1:   *)
(* At(s, k) reads s[k] of the Python code.                                 *)
(***************************************************************************)
EXTENDS Integers, Sequences, FiniteSets, TLC

VARIABLES
    lz_pc,        \* LZ77 run: "start", "encoded", "loaded", "decoded"
    lz_inbuf,     \* the bytes given to LZ77_encode
    lz_encoded,   \* the result of LZ77_encode
    lz_stream,    \* the bytes given to LZ77_decode
    lz_decoded,   \* the result of LZ77_decode
    bs_pc,        \* blockset run: "start", "compressed", "failed", "decompressed"
    bs_tiles,     \* the flat tile list given to compress
    bs_stream,    \* the result of compress
    bs_decoded,   \* the result of decompress
    t2_pc,        \* Tilemap2D run: "start", "compressed", "failed", "decompressed"
    t2_map,       \* the tilemap given to compress: width, height, flat tiles
    t2_data,      \* the result of compress
    t2_decoded,   \* the result of decompress
    t3_pc,        \* Tilemap3D run: "start", "encoded", "failed", "decoded"
    t3_map,       \* the Tilemap3D given to encode
    t3_data,      \* the result of encode
    t3_decoded,   \* the result of decode
    hf_pc,        \* Huffman run: "start", "built", "compressed", "failed",
                  \* "decompressed", "encoded", "parsed"
    hf_strings,   \* the strings given to recalculate_trees
    hf_trees,     \* HuffmanTrees.trees: context byte -> tree
    hf_text,      \* the string given to compress_string
    hf_compressed,   \* the result of compress_string
    hf_decompressed, \* the result of decompress_string
    hf_tables,       \* the result of encode_trees
    hf_parsed,       \* the result of decode_trees
    bk_pc,        \* string bank run: "start", "written", "failed", "read"
    bk_strings,   \* encoded_strings of compress_func
    bk_files,     \* the bank file and the tree files compress_func writes
    bk_strs       \* the result of begin_decompress

lzVars == <<lz_pc, lz_inbuf, lz_encoded, lz_stream, lz_decoded>>

bsVars == <<bs_pc, bs_tiles, bs_stream, bs_decoded>>

t2Vars == <<t2_pc, t2_map, t2_data, t2_decoded>>

t3Vars == <<t3_pc, t3_map, t3_data, t3_decoded>>

hfVars ==
    <<hf_pc, hf_strings, hf_trees, hf_text, hf_compressed, hf_decompressed,
      hf_tables, hf_parsed>>

bkVars == <<bk_pc, bk_strings, bk_files, bk_strs>>

vars == <<lzVars, bsVars, t2Vars, t3Vars, hfVars, bkVars>>

\* the variables of the other codecs, which a codec's operations leave alone
lzOthers == <<bsVars, t2Vars, t3Vars, hfVars, bkVars>>

bsOthers == <<lzVars, t2Vars, t3Vars, hfVars, bkVars>>

t2Others == <<lzVars, bsVars, t3Vars, hfVars, bkVars>>

t3Others == <<lzVars, bsVars, t2Vars, hfVars, bkVars>>

hfOthers == <<lzVars, bsVars, t2Vars, t3Vars, bkVars>>

bkOthers == <<lzVars, bsVars, t2Vars, t3Vars, hfVars>>

(***************************************************************************)
(* The value of a result before the operation has run, and the state of a  *)
(* codec that is not running.                                              *)
(***************************************************************************)
NoResult == [ok |-> FALSE, err |-> "none", out |-> <<>>]

NoEncoded == [ok |-> FALSE, err |-> "none", entries |-> <<>>, out |-> <<>>]

NoBits == [ok |-> FALSE, err |-> "none", bits |-> <<>>]

NoTiles == [ok |-> FALSE, err |-> "none", tiles |-> <<>>]

LZ77Idle ==
    /\ lz_pc = "idle"
    /\ lz_inbuf = <<>>
    /\ lz_encoded = NoEncoded
    /\ lz_stream = <<>>
    /\ lz_decoded = NoResult

BlocksetIdle ==
    /\ bs_pc = "idle"
    /\ bs_tiles = <<>>
    /\ bs_stream = NoBits
    /\ bs_decoded = NoTiles

NoMap == [width |-> 0, height |-> 0, tiles |-> <<>>]

NoTilemap == [ok |-> FALSE, err |-> "none", width |-> 0, height |-> 0,
              tiles |-> <<>>, idx |-> 0]

Tilemap2DIdle ==
    /\ t2_pc = "idle"
    /\ t2_map = NoMap
    /\ t2_data = NoResult
    /\ t2_decoded = NoTilemap

NoMap3D ==
    [left |-> 0, top |-> 0, width |-> 0, height |-> 0, foreground |-> <<>>,
     background |-> <<>>, hm_width |-> 0, hm_height |-> 0, heightmap |-> <<>>]

NoDecoded3D == [ok |-> FALSE, err |-> "none", map |-> NoMap3D, ret |-> 0]

Tilemap3DIdle ==
    /\ t3_pc = "idle"
    /\ t3_map = NoMap3D
    /\ t3_data = NoResult
    /\ t3_decoded = NoDecoded3D

HuffmanIdle ==
    /\ hf_pc = "idle"
    /\ hf_strings = <<>>
    /\ hf_trees = <<>>
    /\ hf_text = <<>>
    /\ hf_compressed = NoResult
    /\ hf_decompressed = NoResult
    /\ hf_tables = [ok |-> FALSE, err |-> "none", char_offsets |-> <<>>,
                    encoded_trees |-> <<>>]
    /\ hf_parsed = [ok |-> FALSE, err |-> "none", trees |-> <<>>]

NoFiles ==
    [ok |-> FALSE, err |-> "none", bank |-> <<>>, char_offsets |-> <<>>,
     encoded_trees |-> <<>>]

NoStrs == [ok |-> FALSE, err |-> "none", data |-> <<>>, strs |-> <<>>]

BankIdle ==
    /\ bk_pc = "idle"
    /\ bk_strings = <<>>
    /\ bk_files = NoFiles
    /\ bk_strs = NoStrs

\* every codec but the one that runs is idle
OthersIdle(codec) ==
    /\ IF codec = "lz77" THEN TRUE ELSE LZ77Idle
    /\ IF codec = "blockset" THEN TRUE ELSE BlocksetIdle
    /\ IF codec = "tilemap2d" THEN TRUE ELSE Tilemap2DIdle
    /\ IF codec = "tilemap3d" THEN TRUE ELSE Tilemap3DIdle
    /\ IF codec = "huffman" THEN TRUE ELSE HuffmanIdle
    /\ IF codec = "bank" THEN TRUE ELSE BankIdle

(***************************************************************************)
(* Integer and sequence helpers (Python's int and list operations).        *)
(***************************************************************************)
Min(a, b) == IF a < b THEN a ELSE b

At(s, k) == s[k + 1]

\* x >> n and x << n on non-negative integers
Shr(x, n) == x \div (2 ^ n)

Shl(x, n) == x * (2 ^ n)

\* x & (2^n - 1)
LowBits(x, n) == x % (2 ^ n)

\* the n bits of v, most significant first (bitstring's Bits(uint=v, length=n))
RECURSIVE UintBits(_, _)
UintBits(v, n) ==
    IF n = 0 THEN <<>> ELSE Append(UintBits(v \div 2, n - 1), v % 2)

\* the unsigned value of a bit sequence (bitstring's read('uint:n'))
RECURSIVE BitsUint(_)
BitsUint(bits) ==
    IF bits = <<>> THEN 0
    ELSE 2 * BitsUint(SubSeq(bits, 1, Len(bits) - 1)) + bits[Len(bits)]

\* bytes(bitstream): the bits padded with zero bits to whole bytes
RECURSIVE BitsToBytes(_)
BitsToBytes(bits) ==
    IF bits = <<>> THEN <<>>
    ELSE IF Len(bits) < 8
         THEN <<BitsUint(bits) * (2 ^ (8 - Len(bits)))>>
         ELSE <<BitsUint(SubSeq(bits, 1, 8))>>
              \o BitsToBytes(SubSeq(bits, 9, Len(bits)))

\* BitStream(data): the bits of a byte string
RECURSIVE BytesToBits(_)
BytesToBits(data) ==
    IF data = <<>> THEN <<>>
    ELSE UintBits(data[1], 8) \o BytesToBits(Tail(data))

\* int.bit_length()
RECURSIVE BitLength(_)
BitLength(x) == IF x = 0 THEN 0 ELSE 1 + BitLength(x \div 2)

\* Bits(ue=k): the exp-Golomb code of k
ue_bits(k) ==
    LET n == BitLength(k + 1) - 1
    IN  [j \in 1..n |-> 0] \o UintBits(k + 1, n + 1)

\* stream.read('uint:n') at bit position pos; ReadError past the end
read_uint(bits, pos, n) ==
    IF pos + n > Len(bits)
    THEN [ok |-> FALSE, val |-> 0, pos |-> pos]
    ELSE [ok |-> TRUE, val |-> BitsUint(SubSeq(bits, pos + 1, pos + n)),
          pos |-> pos + n]

\* the number of 0 bits from pos to the next 1 bit, or -1 when there is none
RECURSIVE leading_zeros(_, _, _)
leading_zeros(bits, pos, n) ==
    IF pos + n >= Len(bits) THEN -1
    ELSE IF At(bits, pos + n) = 1 THEN n
    ELSE leading_zeros(bits, pos, n + 1)

\* stream.read('ue') at bit position pos; ReadError past the end
read_ue(bits, pos) ==
    LET n == leading_zeros(bits, pos, 0)
    IN  IF n = -1 \/ pos + 2 * n + 1 > Len(bits)
        THEN [ok |-> FALSE, val |-> 0, pos |-> pos]
        ELSE [ok |-> TRUE,
              val |-> (2 ^ n) - 1
                      + BitsUint(SubSeq(bits, pos + n + 2, pos + 2 * n + 1)),
              pos |-> pos + 2 * n + 1]

\* all sequences over S of length 0..n
SeqsUpTo(S, n) == UNION {[1..k -> S] : k \in 0..n}

(***************************************************************************)
(* LZ77 codec: src/tools/codecs/lz77.py                                    *)
(***************************************************************************)
MAX_OFFSET == 4095

MIN_LEN_LIMIT == 3

MAX_LEN_LIMIT == 18

\* the inner while loop of find_best_match: the length of the match of
\* inbuf[i-1..] against inbuf[start..], cut at MAX_LEN
RECURSIVE match_length(_, _, _, _, _)
match_length(inbuf, i, start, length, MAX_LEN) ==
    IF At(inbuf, length + i - 1) = At(inbuf, start + length)
    THEN IF length + 1 = MAX_LEN
         THEN length + 1
         ELSE match_length(inbuf, i, start, length + 1, MAX_LEN)
    ELSE length

\* the for loop of find_best_match, i running from start down to END_SEARCH+1
RECURSIVE search_window(_, _, _, _, _, _, _)
search_window(inbuf, start, i, END_SEARCH, MAX_LEN, best_len, match_offset) ==
    IF i <= END_SEARCH
    THEN [tuple |-> TRUE, len |-> best_len, off |-> match_offset]
    ELSE LET length == match_length(inbuf, i, start, 0, MAX_LEN)
         IN  IF length > best_len
             THEN IF length = MAX_LEN
                  THEN [tuple |-> TRUE, len |-> length, off |-> start - i + 1]
                  ELSE search_window(inbuf, start, i - 1, END_SEARCH, MAX_LEN,
                                     length, start - i + 1)
             ELSE search_window(inbuf, start, i - 1, END_SEARCH, MAX_LEN,
                                best_len, match_offset)

\* find_best_match with the search starting one byte too far back
find_best_match_skip(inbuf, start) ==
    LET END_SEARCH == IF start > MAX_OFFSET THEN start - MAX_OFFSET ELSE 0
        MAX_LEN    == Min(MAX_LEN_LIMIT, Len(inbuf) - start)
    IN  IF MAX_LEN < MIN_LEN_LIMIT
        THEN [tuple |-> FALSE, len |-> 1, off |-> 0]
        ELSE search_window(inbuf, start, start - 1, END_SEARCH, MAX_LEN, 0, 0)

\* find_best_match(inbuf, start): tuple is FALSE where the code returns the
\* bare integer 1 instead of a (length, offset) pair
find_best_match(inbuf, start) ==
    LET END_SEARCH == IF start > MAX_OFFSET THEN start - MAX_OFFSET ELSE 0
        MAX_LEN    == Min(MAX_LEN_LIMIT, Len(inbuf) - start)
    IN  IF MAX_LEN < MIN_LEN_LIMIT
        THEN [tuple |-> FALSE, len |-> 1, off |-> 0]
        ELSE search_window(inbuf, start, start, END_SEARCH, MAX_LEN, 0, 0)

Entry(kind, a, b) == [kind |-> kind, a |-> a, b |-> b]

\* the while loop of LZ77_encode: the entries, or the exception that ends it
RECURSIVE encode_entries(_, _, _)
encode_entries(inbuf, i, entries) ==
    IF i >= Len(inbuf)
    THEN [ok |-> TRUE, err |-> "", entries |-> Append(entries, Entry("end", 0, 0))]
    ELSE
    LET m == find_best_match(inbuf, i)
    IN  IF ~m.tuple
        THEN [ok |-> FALSE, err |-> "TypeError", entries |-> entries]
        ELSE IF m.len >= 3
        THEN LET t == find_best_match(inbuf, i + 1)
             IN  IF ~t.tuple
                 THEN [ok |-> FALSE, err |-> "TypeError", entries |-> entries]
                 ELSE
                 LET lazy == t.len > m.len
                     match_len    == IF lazy THEN t.len ELSE m.len
                     match_offset == IF lazy THEN t.off ELSE m.off
                     es == IF lazy
                           THEN Append(entries, Entry("byte", At(inbuf, i), 0))
                           ELSE entries
                     j  == IF lazy THEN i + 1 ELSE i
                 IN  IF ~(match_len \in 3..18 /\ match_offset \in 0..4095)
                     THEN [ok |-> FALSE, err |-> "AssertionError", entries |-> es]
                     ELSE encode_entries(inbuf, j + match_len,
                              Append(es, Entry("run", match_len, match_offset)))
        ELSE encode_entries(inbuf, i + 1,
                            Append(entries, Entry("byte", At(inbuf, i), 0)))

\* the command bits of LZ77_encode: 1 for a literal, 0 for a run or the end
command_bits(entries) ==
    [k \in 1..Len(entries) |-> IF entries[k].kind = "byte" THEN 1 ELSE 0]

\* run_bytes with the offset written zero-based
run_bytes_zero_based(e) ==
    << (Shr(e.b - 1, 8) % 16) * 16 + ((18 - e.a) % 16), (e.b - 1) % 256 >>

\* the two bytes of a run packet
run_bytes(e) ==
    << (Shr(e.b, 8) % 16) * 16 + ((18 - e.a) % 16), e.b % 256 >>

\* the output loop of LZ77_encode, from entry i (counted from 0) on
RECURSIVE write_entries(_, _, _)
write_entries(entries, cmdbytes, i) ==
    IF i >= Len(entries) THEN <<>>
    ELSE LET e     == At(entries, i)
             flush == IF i % 8 = 0 THEN <<At(cmdbytes, i \div 8)>> ELSE <<>>
         IN  IF e.kind = "byte"
             THEN flush \o <<e.a>> \o write_entries(entries, cmdbytes, i + 1)
             ELSE IF e.kind = "run"
             THEN flush \o run_bytes(e) \o write_entries(entries, cmdbytes, i + 1)
             ELSE flush \o <<0, 0>>

LZ77_encode(inbuf) ==
    LET r == encode_entries(inbuf, 0, <<>>)
    IN  IF r.ok
        THEN [ok |-> TRUE, err |-> "", entries |-> r.entries,
              out |-> write_entries(r.entries,
                                    BitsToBytes(command_bits(r.entries)), 0)]
        ELSE [ok |-> FALSE, err |-> r.err, entries |-> r.entries, out |-> <<>>]

\* the copy loop of LZ77_decode: length bytes, each read at outbuf[-offset]
RECURSIVE copy_run(_, _, _)
copy_run(outbuf, offset, length) ==
    IF length = 0 THEN outbuf
    ELSE copy_run(Append(outbuf, outbuf[Len(outbuf) - offset + 1]),
                  offset, length - 1)

\* the while loop of LZ77_decode.  cmd is the command byte and bitpos the
\* number of its bits consumed; bitpos = -1 is the empty BitStream the loop
\* starts with ("not cmd" is true of an empty bitstring)
RECURSIVE decode_loop(_, _, _, _, _)
decode_loop(inbuf, idx, cmd, bitpos, outbuf) ==
    LET fetch == bitpos = -1 \/ bitpos >= 8
    IN  IF fetch /\ idx >= Len(inbuf)
        THEN [ok |-> FALSE, err |-> "IndexError", out |-> <<>>, idx |-> idx]
        ELSE
        LET c   == IF fetch THEN At(inbuf, idx) ELSE cmd
            bp  == IF fetch THEN 0 ELSE bitpos
            i1  == IF fetch THEN idx + 1 ELSE idx
            bit == UintBits(c, 8)[bp + 1]
        IN  IF bit = 1
            THEN IF i1 >= Len(inbuf)
                 THEN [ok |-> FALSE, err |-> "IndexError", out |-> <<>>, idx |-> i1]
                 ELSE decode_loop(inbuf, i1 + 1, c, bp + 1,
                                  Append(outbuf, At(inbuf, i1)))
            ELSE IF i1 + 1 >= Len(inbuf)
                 THEN [ok |-> FALSE, err |-> "IndexError", out |-> <<>>, idx |-> i1]
                 ELSE
                 LET offset == Shl(At(inbuf, i1) - (At(inbuf, i1) % 16), 4)
                               + At(inbuf, i1 + 1)
                     length == 18 - (At(inbuf, i1) % 16)
                 IN  IF offset = 0
                     THEN [ok |-> TRUE, err |-> "", out |-> outbuf, idx |-> i1 + 2]
                     ELSE IF offset > Len(outbuf)
                     THEN [ok |-> FALSE, err |-> "IndexError", out |-> <<>>,
                           idx |-> i1 + 2]
                     ELSE decode_loop(inbuf, i1 + 2, c, bp + 1,
                                      copy_run(outbuf, offset, length))

\* LZ77_decode with the IndexError taken for the end of the stream
LZ77_decode_lenient(inbuf) ==
    [decode_loop(inbuf, 0, 0, -1, <<>>) EXCEPT !.ok = TRUE, !.err = ""]

LZ77_decode(inbuf) == decode_loop(inbuf, 0, 0, -1, <<>>)


\* bounds of the LZ77 runs
MaxInLen == 6

LZ77Bytes == {65, 66}

\* compressed files given to the decoder directly
LZ77Files ==
    { <<0, 0, 0>>, <<128, 65, 0, 0>>, <<128, 65, 14, 1, 0, 0>>,
      \* back-references that reach before the start of the output
      <<0, 14, 1, 0, 0>>, <<128, 65, 14, 2, 0, 0>>,
      <<160, 65, 15, 1, 66, 15, 6, 0, 0>>, <<128, 65, 240, 0, 0, 0>>,
      \* streams that end before an end packet
      <<>>, <<128>>, <<128, 65>>, <<128, 65, 0>>, <<128, 65, 14>>,
      <<128, 65, 14, 1>>, <<255, 65, 66, 65, 66, 65, 66, 65, 66>>,
      <<255, 65, 66, 65, 66, 65, 66, 65, 66, 0, 0>> }

\* inputs long enough for matches of MAX_LEN_LIMIT bytes and more
LZ77LongInputs ==
    { [k \in 1..24 |-> 65],
      [k \in 1..24 |-> IF k % 2 = 0 THEN 65 ELSE 66],
      <<67, 68>> \o [k \in 1..44 |-> IF k = 22 THEN 66 ELSE 65] }

LZ77Init ==
    /\ lz_pc = "start"
    /\ lz_inbuf \in SeqsUpTo(LZ77Bytes, MaxInLen) \cup LZ77LongInputs
    /\ lz_encoded = NoEncoded
    /\ lz_stream = <<>>
    /\ lz_decoded = NoResult
    /\ OthersIdle("lz77")

\* lz77.py encode: LZ77_encode on the input
LZ77Encode ==
    /\ lz_pc = "start"
    /\ LET r == LZ77_encode(lz_inbuf)
       IN  /\ lz_encoded' = r
           /\ lz_stream' = r.out
           /\ lz_pc' = IF r.ok THEN "encoded" ELSE "failed"
    /\ UNCHANGED <<lz_inbuf, lz_decoded, lzOthers>>

\* the most bytes of an enumerated compressed file
MaxStreamLen == 5

\* command bytes for no, one and two literals, run packets 0F 01 (length 3,
\* offset 1) and 01 00 (offset 0), and the literals these bytes make
LZ77StreamBytes == {0, 1, 15, 128, 192}

\* a compressed file read from disk instead of produced by the encoder
LZ77Load ==
    /\ lz_pc = "start"
    /\ lz_inbuf = <<>>
    /\ \E f \in LZ77Files \cup SeqsUpTo(LZ77StreamBytes, MaxStreamLen) :
          /\ lz_stream' = f
          /\ lz_pc' = "loaded"
    /\ UNCHANGED <<lz_inbuf, lz_encoded, lz_decoded, lzOthers>>

\* lz77.py decode: LZ77_decode on the stream
LZ77Decode ==
    /\ lz_pc \in {"encoded", "loaded"}
    /\ LET r == LZ77_decode(lz_stream)
       IN  lz_decoded' = [ok |-> r.ok, err |-> r.err, out |-> r.out]
    /\ lz_pc' = "decoded"
    /\ UNCHANGED <<lz_inbuf, lz_encoded, lz_stream, lzOthers>>

LZ77Next == LZ77Encode \/ LZ77Load \/ LZ77Decode

SpecLZ77 == LZ77Init /\ [][LZ77Next]_vars

(***************************************************************************)
(* Tiles: src/scripts/common/models/tile.py                                *)
(***************************************************************************)
Attr == {"HFLIP", "VFLIP", "PRIORITY"}

\* Tile(): idx 0 and no attribute
NewTile == [idx |-> 0, hflip |-> FALSE, vflip |-> FALSE, priority |-> FALSE]

\* the first branch of set_val / get_val: the 11-bit index of a tile value
idx_of_val(val) == val % 2048

\* Tile.set_val(val): a tile from its 16-bit value
set_val(val) ==
    [idx      |-> idx_of_val(val),
     hflip    |-> (val \div 2048) % 2 = 1,
     vflip    |-> (val \div 4096) % 2 = 1,
     priority |-> (val \div 32768) % 2 = 1]

\* Tile.get_val(): the 16-bit value of a tile
get_val(t) ==
    idx_of_val(t.idx) + (IF t.hflip THEN 2048 ELSE 0)
      + (IF t.vflip THEN 4096 ELSE 0) + (IF t.priority THEN 32768 ELSE 0)

has_attr(t, attr) ==
    IF attr = "HFLIP" THEN t.hflip
    ELSE IF attr = "VFLIP" THEN t.vflip
    ELSE t.priority

set_attr(t, attr) ==
    IF attr = "HFLIP" THEN [t EXCEPT !.hflip = TRUE]
    ELSE IF attr = "VFLIP" THEN [t EXCEPT !.vflip = TRUE]
    ELSE [t EXCEPT !.priority = TRUE]

(***************************************************************************)
(* Blockset codec: src/tools/codecs/blockset.py                            *)
(***************************************************************************)
\* the for loop of _encode_mask from tile i on, and the final run
RECURSIVE encode_mask_loop(_, _, _, _, _)
encode_mask_loop(tiles, attr, i, current_run, tile_has_attribute) ==
    IF i >= Len(tiles)
    THEN IF current_run > 0 THEN ue_bits(current_run) ELSE <<>>
    ELSE IF has_attr(At(tiles, i), attr) # tile_has_attribute
         THEN ue_bits(current_run)
              \o encode_mask_loop(tiles, attr, i + 1, 0, ~tile_has_attribute)
         ELSE encode_mask_loop(tiles, attr, i + 1, current_run + 1,
                               tile_has_attribute)

\* _encode_mask: the bits appended to the stream
encode_mask(tiles, attr) == encode_mask_loop(tiles, attr, 0, 0, FALSE)

\* queue.insert(0, queue.pop(idx))
move_to_front(queue, idx) ==
    <<At(queue, idx)>> \o SubSeq(queue, 1, idx) \o SubSeq(queue, idx + 2, Len(queue))

\* queue.insert(0, val); queue.pop()
push_front(queue, val) == <<val>> \o SubSeq(queue, 1, Len(queue) - 1)

\* queue.index(tile_index), for a tile_index that is in the queue
RECURSIVE queue_index(_, _, _)
queue_index(queue, tile_index, k) ==
    IF At(queue, k) = tile_index THEN k ELSE queue_index(queue, tile_index, k + 1)

\* _encode_tile without the queue lookup: every index written as a literal
encode_tile_literal(tile_index, queue) ==
    IF tile_index < 0 \/ tile_index >= 2048
    THEN [ok |-> FALSE, bits |-> <<>>, queue |-> queue]
    ELSE [ok |-> TRUE, bits |-> <<0>> \o UintBits(tile_index, 11),
          queue |-> push_front(queue, tile_index)]

\* _encode_tile: the bits appended and the queue afterwards; a tile index
\* that does not fit in 11 bits makes Bits(uint=..., length=11) raise
encode_tile(tile_index, queue) ==
    IF \E k \in 1..Len(queue) : queue[k] = tile_index
    THEN LET idx == queue_index(queue, tile_index, 0)
         IN  [ok |-> TRUE, bits |-> <<1>> \o UintBits(idx, 4),
              queue |-> move_to_front(queue, idx)]
    ELSE IF tile_index < 0 \/ tile_index >= 2048
    THEN [ok |-> FALSE, bits |-> <<>>, queue |-> queue]
    ELSE [ok |-> TRUE, bits |-> <<0>> \o UintBits(tile_index, 11),
          queue |-> push_front(queue, tile_index)]

\* the pair loop of compress from tile i on
RECURSIVE compress_pairs(_, _, _)
compress_pairs(tiles, i, queue) ==
    IF i >= Len(tiles) THEN [ok |-> TRUE, err |-> "", bits |-> <<>>]
    ELSE
    LET e1 == encode_tile(At(tiles, i).idx, queue)
    IN  IF ~e1.ok THEN [ok |-> FALSE, err |-> "CreationError", bits |-> <<>>]
        ELSE IF i + 1 >= Len(tiles)
        THEN [ok |-> FALSE, err |-> "IndexError", bits |-> <<>>]
        ELSE
        LET sibling == At(tiles, i + 1).idx
                         = At(tiles, i).idx
                           + (IF At(tiles, i).hflip THEN -1 ELSE 1)
            e2   == encode_tile(At(tiles, i + 1).idx, e1.queue)
            rest == compress_pairs(tiles, i + 2,
                                   IF sibling THEN e1.queue ELSE e2.queue)
        IN  IF ~sibling /\ ~e2.ok
            THEN [ok |-> FALSE, err |-> "CreationError", bits |-> <<>>]
            ELSE IF ~rest.ok THEN rest
            ELSE [ok |-> TRUE, err |-> "",
                  bits |-> e1.bits
                           \o (IF sibling THEN <<1>> ELSE <<0>> \o e2.bits)
                           \o rest.bits]

InitialQueue == [k \in 1..16 |-> 0]

\* compress(tiles): the bit stream returned
compress(tiles) ==
    LET pairs == compress_pairs(tiles, 0, InitialQueue)
    IN  IF ~pairs.ok THEN pairs
        ELSE [ok |-> TRUE, err |-> "",
              bits |-> UintBits(Len(tiles) \div 4, 16)
                       \o encode_mask(tiles, "PRIORITY")
                       \o encode_mask(tiles, "VFLIP")
                       \o encode_mask(tiles, "HFLIP")
                       \o pairs.bits]

\* the while loop of _mask_tiles
RECURSIVE mask_tiles_loop(_, _, _, _, _, _, _)
mask_tiles_loop(tiles, attr, bits, pos, i, set, num) ==
    IF i >= Len(tiles)
    THEN [ok |-> TRUE, err |-> "", tiles |-> tiles, pos |-> pos]
    ELSE
    LET set1 == ~set
        r    == read_ue(bits, pos)
        n    == num + r.val
    IN  IF ~r.ok
        THEN [ok |-> FALSE, err |-> "ReadError", tiles |-> tiles, pos |-> pos]
        ELSE IF set1 /\ i + n > Len(tiles)
        THEN [ok |-> FALSE, err |-> "IndexError", tiles |-> tiles, pos |-> r.pos]
        ELSE mask_tiles_loop(
                 [k \in 1..Len(tiles) |->
                     IF set1 /\ k - 1 >= i /\ k - 1 < i + n
                     THEN set_attr(tiles[k], attr) ELSE tiles[k]],
                 attr, bits, r.pos, i + n, set1, 1)

\* _mask_tiles(tiles, attr, stream)
mask_tiles(tiles, attr, bits, pos) ==
    mask_tiles_loop(tiles, attr, bits, pos, 0, TRUE, 0)

\* _decode_tile with the queue entry read and left in its place
decode_tile_unmoved(bits, pos, queue) ==
    LET flag == read_uint(bits, pos, 1)
    IN  IF ~flag.ok THEN [ok |-> FALSE, val |-> 0, queue |-> queue, pos |-> pos]
        ELSE IF flag.val = 1
        THEN LET r == read_uint(bits, flag.pos, 4)
             IN  IF ~r.ok
                 THEN [ok |-> FALSE, val |-> 0, queue |-> queue, pos |-> pos]
                 ELSE [ok |-> TRUE, val |-> At(queue, r.val),
                       queue |-> queue, pos |-> r.pos]
        ELSE LET r == read_uint(bits, flag.pos, 11)
             IN  IF ~r.ok
                 THEN [ok |-> FALSE, val |-> 0, queue |-> queue, pos |-> pos]
                 ELSE [ok |-> TRUE, val |-> r.val,
                       queue |-> push_front(queue, r.val), pos |-> r.pos]

\* _decode_tile(stream, queue)
decode_tile(bits, pos, queue) ==
    LET flag == read_uint(bits, pos, 1)
    IN  IF ~flag.ok THEN [ok |-> FALSE, val |-> 0, queue |-> queue, pos |-> pos]
        ELSE IF flag.val = 1
        THEN LET r == read_uint(bits, flag.pos, 4)
             IN  IF ~r.ok
                 THEN [ok |-> FALSE, val |-> 0, queue |-> queue, pos |-> pos]
                 ELSE [ok |-> TRUE, val |-> At(queue, r.val),
                       queue |-> move_to_front(queue, r.val), pos |-> r.pos]
        ELSE LET r == read_uint(bits, flag.pos, 11)
             IN  IF ~r.ok
                 THEN [ok |-> FALSE, val |-> 0, queue |-> queue, pos |-> pos]
                 ELSE [ok |-> TRUE, val |-> r.val,
                       queue |-> push_front(queue, r.val), pos |-> r.pos]

\* the pair loop of decompress from tile i on
RECURSIVE decompress_pairs(_, _, _, _, _)
decompress_pairs(tiles, bits, pos, i, queue) ==
    IF i >= Len(tiles) THEN [ok |-> TRUE, err |-> "", tiles |-> tiles]
    ELSE
    LET t1 == decode_tile(bits, pos, queue)
        sb == read_uint(bits, t1.pos, 1)
        t2 == decode_tile(bits, sb.pos, t1.queue)
    IN  IF ~t1.ok \/ ~sb.ok \/ (sb.val = 0 /\ ~t2.ok)
        THEN [ok |-> FALSE, err |-> "ReadError", tiles |-> <<>>]
        ELSE IF sb.val = 1
        THEN decompress_pairs(
                 [tiles EXCEPT ![i + 1].idx = t1.val,
                               ![i + 2].idx = IF tiles[i + 1].hflip
                                              THEN t1.val - 1 ELSE t1.val + 1],
                 bits, sb.pos, i + 2, t1.queue)
        ELSE decompress_pairs(
                 [tiles EXCEPT ![i + 1].idx = t1.val, ![i + 2].idx = t2.val],
                 bits, t2.pos, i + 2, t2.queue)

\* decompress(data): the flat tile list (the blocks are its slices of 4)
decompress(data) ==
    LET bits  == BytesToBits(data)
        total == read_uint(bits, 0, 16)
        tiles == [k \in 1..(total.val * 4) |-> NewTile]
        m1    == mask_tiles(tiles, "PRIORITY", bits, total.pos)
        m2    == mask_tiles(m1.tiles, "VFLIP", bits, m1.pos)
        m3    == mask_tiles(m2.tiles, "HFLIP", bits, m2.pos)
    IN  IF ~total.ok THEN [ok |-> FALSE, err |-> "ReadError", tiles |-> <<>>]
        ELSE IF ~m1.ok THEN [ok |-> FALSE, err |-> m1.err, tiles |-> <<>>]
        ELSE IF ~m2.ok THEN [ok |-> FALSE, err |-> m2.err, tiles |-> <<>>]
        ELSE IF ~m3.ok THEN [ok |-> FALSE, err |-> m3.err, tiles |-> <<>>]
        ELSE decompress_pairs(m3.tiles, bits, m3.pos, 0, InitialQueue)

(***************************************************************************)
(* Tilemap2D codec: src/scripts/common/codecs/tilemap2d.py                 *)
(***************************************************************************)
COPY_TILE == 0

RLE_TILE_RUN == 64

RLE_LAST_RUN == 128

RLE_INCREMENT_RUN == 192

\* (tile.get_val() & 0xF800) >> 8
attr_byte(t) == (get_val(t) \div 2048) * 8

\* the inner while loop of _encode_tile_attributes: the count of the run
\* that starts at tile idx
RECURSIVE attr_run_count(_, _, _, _)
attr_run_count(tiles, idx, prev_attrs, count) ==
    IF idx + count + 1 < Len(tiles) /\ count < 1024
       /\ attr_byte(At(tiles, idx + count + 1)) = prev_attrs
    THEN attr_run_count(tiles, idx, prev_attrs, count + 1)
    ELSE count

\* attr_record with the one-byte form kept for counts up to 2 only
attr_record_narrow(prev_attrs, count) ==
    IF count > 2
    THEN <<prev_attrs + Shr(count, 8), count % 256>>
    ELSE <<prev_attrs + 4 + (count % 4)>>

\* the record _encode_tile_attributes writes for a run
attr_record(prev_attrs, count) ==
    IF count > 4
    THEN <<prev_attrs + Shr(count, 8), count % 256>>
    ELSE <<prev_attrs + 4 + (count % 4)>>

\* the outer while loop of _encode_tile_attributes and the terminator
RECURSIVE encode_tile_attributes(_, _)
encode_tile_attributes(tiles, idx) ==
    IF idx >= Len(tiles) THEN <<0, 0>>
    ELSE LET prev_attrs == attr_byte(At(tiles, idx))
             count      == attr_run_count(tiles, idx, prev_attrs, 0)
         IN  attr_record(prev_attrs, count)
             \o encode_tile_attributes(tiles, idx + count + 1)

\* the number of tiles after tile_idx that continue a run: the while loops
\* of the three run handlers, the test on the tile passed as same(j)
RECURSIVE run_count(_, _, _, _, _)
run_count(tiles, j, count, limit, want) ==
    IF count < limit /\ j < Len(tiles) /\ At(tiles, j).idx = want
    THEN run_count(tiles, j + 1, count + 1, limit, want)
    ELSE count

\* the while loop of _handle_encode_incr_run
RECURSIVE incr_run_count(_, _, _, _)
incr_run_count(tiles, j, count, incr) ==
    IF count <= 63 /\ j < Len(tiles) /\ At(tiles, j).idx = incr + 1
    THEN incr_run_count(tiles, j + 1, count + 1, incr + 1)
    ELSE count

\* es.mode | count as the byte bytearray.append takes
mode_or_count(mode, count) ==
    IF count >= 64 THEN (mode + count) - (IF (mode \div 64) % 2 = 1 THEN 64 ELSE 0)
    ELSE mode + count

\* _handle_encode_rle_last_run(es): count <= 0x3F lets count reach 0x40
handle_encode_rle_last_run(tiles, es) ==
    LET count == run_count(tiles, es.tile_idx + 1, 0, 64, es.last)
    IN  [es EXCEPT !.data = Append(@, mode_or_count(RLE_LAST_RUN, count)),
                   !.tile_idx = @ + count + 1]

\* _handle_encode_incr_run(es)
handle_encode_incr_run(tiles, es) ==
    LET count == incr_run_count(tiles, es.tile_idx + 1, 0, es.incr + 1)
    IN  [es EXCEPT !.data = Append(@, mode_or_count(RLE_INCREMENT_RUN, count)),
                   !.incr = @ + 1 + count,
                   !.tile_idx = @ + count + 1]

\* _handle_encode_rle_tile_run(es)
handle_encode_rle_tile_run(tiles, es) ==
    LET start_tile == At(tiles, es.tile_idx).idx
        count      == run_count(tiles, es.tile_idx + 1, 0, 7, start_tile)
    IN  [es EXCEPT !.data = @ \o << RLE_TILE_RUN + (count % 8) * 8
                                      + (Shr(start_tile, 8) % 8),
                                    start_tile % 256 >>,
                   !.last = start_tile,
                   !.tile_idx = @ + count + 1]

\* _handle_encode_copy_tile(es): struct.pack(">H", (mode << 8) | start_tile)
handle_encode_copy_tile(tiles, es) ==
    LET start_tile == At(tiles, es.tile_idx).idx
    IN  [es EXCEPT !.data = @ \o <<Shr(start_tile, 8), start_tile % 256>>,
                   !.tile_idx = @ + 1]

\* the mode _encode_tile_indices selects at es.tile_idx
select_mode(tiles, es) ==
    LET start_tile == At(tiles, es.tile_idx).idx
    IN  IF start_tile = es.last THEN RLE_LAST_RUN
        ELSE IF start_tile = es.incr + 1 THEN RLE_INCREMENT_RUN
        ELSE IF es.tile_idx + 1 < Len(tiles)
                /\ start_tile = At(tiles, es.tile_idx + 1).idx
        THEN RLE_TILE_RUN
        ELSE COPY_TILE

\* ENCODE_HANDLERS[mode](es)
encode_handler(tiles, es, mode) ==
    IF mode = RLE_LAST_RUN THEN handle_encode_rle_last_run(tiles, es)
    ELSE IF mode = RLE_INCREMENT_RUN THEN handle_encode_incr_run(tiles, es)
    ELSE IF mode = RLE_TILE_RUN THEN handle_encode_rle_tile_run(tiles, es)
    ELSE handle_encode_copy_tile(tiles, es)

\* the while loop of _encode_tile_indices and the end marker
RECURSIVE encode_indices_loop(_, _)
encode_indices_loop(tiles, es) ==
    IF es.tile_idx >= Len(tiles) THEN es.data \o <<7, 255>>
    ELSE encode_indices_loop(tiles,
             encode_handler(tiles, es, select_mode(tiles, es)))

\* _encode_tile_indices(data): the first run is always an RLE_TILE_RUN
encode_tile_indices(tiles, data) ==
    encode_indices_loop(tiles,
        handle_encode_rle_tile_run(tiles,
            [data |-> data, tile_idx |-> 0,
             last |-> At(tiles, 0).idx, incr |-> At(tiles, 0).idx]))

\* Tilemap2D.compress(): header, attributes, indices
Tilemap2D_compress(m) ==
    IF m.width > 255 \/ m.height > 255
    THEN [ok |-> FALSE, err |-> "struct.error", out |-> <<>>]
    ELSE IF Len(m.tiles) = 0
    THEN [ok |-> FALSE, err |-> "IndexError", out |-> <<>>]
    ELSE [ok |-> TRUE, err |-> "",
          out |-> encode_tile_indices(m.tiles,
                      <<m.width, m.height>>
                      \o encode_tile_attributes(m.tiles, 0))]

\* tiles[i .. i+n-1] = Tile(attrs), for i + n <= len(tiles)
set_tiles_val(tiles, i, n, attrs) ==
    [k \in 1..Len(tiles) |->
        IF k - 1 >= i /\ k - 1 < i + n THEN set_val(attrs) ELSE tiles[k]]

\* the while loop of _decode_tile_attributes
RECURSIVE decode_tile_attributes(_, _, _, _)
decode_tile_attributes(data, idx, tiles, i) ==
    IF idx >= Len(data)
    THEN [ok |-> FALSE, err |-> "IndexError", tiles |-> tiles, idx |-> idx]
    ELSE
    LET b      == At(data, idx)
        attrs  == Shl(b - (b % 8), 8)
        short  == (b \div 4) % 2 = 1
        length == IF short THEN b % 4
                  ELSE IF idx + 1 < Len(data)
                       THEN Shl(b % 4, 8) + At(data, idx + 1) ELSE -1
        idx1   == IF short THEN idx + 1 ELSE idx + 2
    IN  IF length = -1
        THEN [ok |-> FALSE, err |-> "IndexError", tiles |-> tiles, idx |-> idx]
        ELSE IF ~short /\ length = 0
        THEN [ok |-> TRUE, err |-> "", tiles |-> tiles, idx |-> idx1]
        ELSE IF i + length + 1 > Len(tiles)
        THEN [ok |-> FALSE, err |-> "IndexError", tiles |-> tiles, idx |-> idx1]
        ELSE decode_tile_attributes(data, idx1,
                 set_tiles_val(tiles, i, length + 1, attrs), i + length + 1)

\* tiles[i .. i+n-1].idx = first, first + step, ...
set_tiles_idx(tiles, i, n, first, step) ==
    [k \in 1..Len(tiles) |->
        IF k - 1 >= i /\ k - 1 < i + n
        THEN [tiles[k] EXCEPT !.idx = first + step * (k - 1 - i)]
        ELSE tiles[k]]

\* struct.unpack(">H", data[idx : idx + 2])[0] & 0x7FF, -1 for struct.error
unpack_val(data, idx) ==
    IF idx + 2 > Len(data) THEN -1
    ELSE (At(data, idx) * 256 + At(data, idx + 1)) % 2048

None == -1

\* the while loop of _decode_tile_indices with its four handlers; last and
\* incr are None until the first RLE_TILE_RUN
RECURSIVE decode_indices_loop(_, _, _)
decode_indices_loop(data, tiles, ds) ==
    IF ds.done THEN [ok |-> TRUE, err |-> "", tiles |-> tiles, idx |-> ds.data_idx]
    ELSE IF ds.data_idx >= Len(data)
    THEN [ok |-> FALSE, err |-> "IndexError", tiles |-> tiles, idx |-> ds.data_idx]
    ELSE
    LET b    == At(data, ds.data_idx)
        mode == b - (b % 64)
        val  == unpack_val(data, ds.data_idx)
        n    == IF mode = COPY_TILE THEN 1
                ELSE IF mode = RLE_TILE_RUN THEN ((b \div 8) % 8) + 1
                ELSE (b % 64) + 1
        fail(e) == [ok |-> FALSE, err |-> e, tiles |-> tiles, idx |-> ds.data_idx]
    IN  IF mode \in {COPY_TILE, RLE_TILE_RUN} /\ val = -1
        THEN fail("struct.error")
        ELSE IF mode = COPY_TILE /\ val = 2047
        THEN decode_indices_loop(data, tiles,
                 [ds EXCEPT !.data_idx = @ + 2, !.done = TRUE])
        ELSE IF mode = RLE_INCREMENT_RUN /\ ds.incr = None
        THEN fail("TypeError")
        ELSE IF ds.tile_idx + n > Len(tiles)
        THEN fail("IndexError")
        ELSE IF mode = COPY_TILE
        THEN decode_indices_loop(data,
                 set_tiles_idx(tiles, ds.tile_idx, 1, val, 0),
                 [ds EXCEPT !.data_idx = @ + 2, !.tile_idx = @ + 1])
        ELSE IF mode = RLE_TILE_RUN
        THEN decode_indices_loop(data,
                 set_tiles_idx(tiles, ds.tile_idx, n, val, 0),
                 [ds EXCEPT !.data_idx = @ + 2, !.tile_idx = @ + n,
                            !.last = val,
                            !.incr = IF @ = None THEN val ELSE @])
        ELSE IF mode = RLE_LAST_RUN
        THEN decode_indices_loop(data,
                 set_tiles_idx(tiles, ds.tile_idx, n, ds.last, 0),
                 [ds EXCEPT !.data_idx = @ + 1, !.tile_idx = @ + n])
        ELSE decode_indices_loop(data,
                 set_tiles_idx(tiles, ds.tile_idx, n, ds.incr + 1, 1),
                 [ds EXCEPT !.data_idx = @ + 1, !.tile_idx = @ + n,
                            !.incr = @ + n])

\* _decode_tile_indices(data, data_idx): the value returned is the
\* parameter data_idx, not the position the loop reached
decode_tile_indices(data, data_idx, tiles) ==
    LET r == decode_indices_loop(data, tiles,
                 [data_idx |-> data_idx, tile_idx |-> 0, last |-> None,
                  incr |-> None, done |-> FALSE])
    IN  [r EXCEPT !.idx = IF r.ok THEN data_idx ELSE @]

\* Tilemap2D.decompress(data): the tilemap and the index returned
Tilemap2D_decompress(data) ==
    IF Len(data) < 2
    THEN [ok |-> FALSE, err |-> "struct.error", width |-> 0, height |-> 0,
          tiles |-> <<>>, idx |-> 0]
    ELSE
    LET width  == At(data, 0)
        height == At(data, 1)
        a == decode_tile_attributes(data, 2,
                 [k \in 1..(width * height) |-> NewTile], 0)
        t == decode_tile_indices(data, a.idx, a.tiles)
    IN  IF ~a.ok
        THEN [ok |-> FALSE, err |-> a.err, width |-> width, height |-> height,
              tiles |-> <<>>, idx |-> a.idx]
        ELSE [ok |-> t.ok, err |-> t.err, width |-> width, height |-> height,
              tiles |-> IF t.ok THEN t.tiles ELSE <<>>, idx |-> t.idx]

\* bounds of the blockset runs
MaxTiles == 4

BlocksetIdx == {0, 1}

BlocksetFlags == { {}, {"PRIORITY"}, {"VFLIP"}, {"HFLIP"},
                   {"PRIORITY", "VFLIP", "HFLIP"} }

BlocksetTiles ==
    { [idx |-> i, hflip |-> "HFLIP" \in f, vflip |-> "VFLIP" \in f,
       priority |-> "PRIORITY" \in f] : i \in BlocksetIdx, f \in BlocksetFlags }

BlocksetInit ==
    /\ bs_pc = "start"
    /\ bs_tiles \in SeqsUpTo(BlocksetTiles, MaxTiles)
    /\ bs_stream = NoBits
    /\ bs_decoded = NoTiles
    /\ OthersIdle("blockset")

\* scripts/blockset.py start_compress: compress(tiles)
BlocksetCompress ==
    /\ bs_pc = "start"
    /\ bs_stream' = compress(bs_tiles)
    /\ bs_pc' = IF bs_stream'.ok THEN "compressed" ELSE "failed"
    /\ UNCHANGED <<bs_tiles, bs_decoded, bsOthers>>

\* the ue values of one attribute mask of a compressed file of 4 tiles: the
\* first value is the length of the first run (attribute off), each later
\* value is a run length minus 1, runs alternating between on and off
BlocksetMaskRuns ==
    { <<4>>, <<5>>, <<0, 3>>, <<0, 4>>, <<1, 2>>, <<1, 3>>, <<1, 0, 1>>,
      <<1, 0, 5>> }

\* the bits of a mask with the ue values runs
RECURSIVE mask_bits(_)
mask_bits(runs) ==
    IF runs = <<>> THEN <<>> ELSE ue_bits(Head(runs)) \o mask_bits(Tail(runs))

\* compressed files of one block: the three masks, then two tile pairs, each
\* the queue entry 0 and a sibling bit
BlocksetFiles ==
    { BitsToBytes(UintBits(1, 16) \o mask_bits(p) \o mask_bits(v)
                  \o mask_bits(h) \o <<1, 0, 0, 0, 0, 1, 1, 0, 0, 0, 0, 1>>) :
         p \in BlocksetMaskRuns, v \in BlocksetMaskRuns, h \in BlocksetMaskRuns }

\* scripts/blockset.py start_decompress on a file that compress did not write
BlocksetLoad ==
    /\ bs_pc = "start"
    /\ bs_tiles = <<>>
    /\ \E f \in BlocksetFiles :
          bs_stream' = [ok |-> TRUE, err |-> "", bits |-> BytesToBits(f)]
    /\ bs_pc' = "loaded"
    /\ UNCHANGED <<bs_tiles, bs_decoded, bsOthers>>

\* scripts/blockset.py start_decompress: decompress(bytes(stream))
BlocksetDecompress ==
    /\ bs_pc \in {"compressed", "loaded"}
    /\ bs_decoded' = decompress(BitsToBytes(bs_stream.bits))
    /\ bs_pc' = "decompressed"
    /\ UNCHANGED <<bs_tiles, bs_stream, bsOthers>>

BlocksetNext == BlocksetCompress \/ BlocksetLoad \/ BlocksetDecompress

SpecBlockset == BlocksetInit /\ [][BlocksetNext]_vars

\* tile lists long enough to fill the queue of 16 indices: the lengths, the
\* steps between the indices of adjacent tiles, the numbers of distinct
\* indices and the patterns of the HFLIP attribute
BsQueueLens == {0, 20, 24, 32}

BsQueueMods == {3, 17, 18, 20}

BsQueueSteps(mod) == {1, 2, 5, mod - 1}

BsQueueFlips == {"none", "all", "pairs"}

\* tile number k (from 0) of such a list
BsQueueTile(k, step, mod, flip) ==
    [idx |-> (k * step) % mod,
     hflip |-> flip = "all" \/ (flip = "pairs" /\ (k \div 2) % 2 = 1),
     vflip |-> FALSE, priority |-> FALSE]

BlocksetQueueInit ==
    /\ bs_pc = "start"
    /\ \E n \in BsQueueLens, mod \in BsQueueMods, flip \in BsQueueFlips :
          \E step \in BsQueueSteps(mod) :
             bs_tiles = [k \in 1..n |-> BsQueueTile(k - 1, step, mod, flip)]
    /\ bs_stream = NoBits
    /\ bs_decoded = NoTiles
    /\ OthersIdle("blockset")

SpecBlocksetQueue == BlocksetQueueInit /\ [][BlocksetNext]_vars

(***************************************************************************)
(* Tilemap2D runs: a tilemap is compressed and the bytes are decompressed. *)
(***************************************************************************)
\* the most tiles of a tilemap
MaxCells == 6

T2Idx == {5, 6}

T2Flags == { {}, {"HFLIP"} }

T2Tiles ==
    { [idx |-> i, hflip |-> "HFLIP" \in f, vflip |-> "VFLIP" \in f,
       priority |-> "PRIORITY" \in f] : i \in T2Idx, f \in T2Flags }

\* Tilemap2D(tiles) for a list of height rows of width tiles
Tilemap2DInit ==
    /\ t2_pc = "start"
    /\ \E w \in 1..MaxCells, h \in 1..MaxCells :
          /\ w * h <= MaxCells
          /\ \E ts \in [1..(w * h) -> T2Tiles] :
                t2_map = [width |-> w, height |-> h, tiles |-> ts]
    /\ t2_data = NoResult
    /\ t2_decoded = NoTilemap
    /\ OthersIdle("tilemap2d")

Tilemap2DCompress ==
    /\ t2_pc = "start"
    /\ LET r == Tilemap2D_compress(t2_map)
       IN  /\ t2_data' = r
           /\ t2_pc' = IF r.ok THEN "compressed" ELSE "failed"
    /\ UNCHANGED <<t2_map, t2_decoded, t2Others>>

Tilemap2DDecompress ==
    /\ t2_pc = "compressed"
    /\ t2_decoded' = Tilemap2D_decompress(t2_data.out)
    /\ t2_pc' = "decompressed"
    /\ UNCHANGED <<t2_map, t2_data, t2Others>>

Tilemap2DNext == Tilemap2DCompress \/ Tilemap2DDecompress

SpecTilemap2D == Tilemap2DInit /\ [][Tilemap2DNext]_vars


(***************************************************************************)
(* Tilemap3D codec: src/tools/codecs/tilemap3d.py                          *)
(* BitStream.append leaves the position at the end of the stream and       *)
(* bytes(stream) pads the last byte with zero bits.                        *)
(***************************************************************************)
DECODE_LONG_TILE == 0

DECODE_SHORT_TILE == 1

INCREMENT_LONG_TILE == 2

INCREMENT_SHORT_TILE == 3

\* the marker of an uncompressed cell in the decoder's offset dictionary
LITERAL_MARK == 65535

\* the match_run loops of _find_match and _find_match_frequency: the number
\* of tiles from offset on that repeat the tiles b cells before them
RECURSIVE tile_match_run(_, _, _, _)
tile_match_run(input, offset, b, m) ==
    IF offset + m < Len(input)
       /\ At(input, offset - b + m) = At(input, offset + m)
    THEN tile_match_run(input, offset, b, m + 1)
    ELSE m

\* lookback_size = min(offset, 4095)
lookback_size(offset) == Min(offset, 4095)

\* _find_match_frequency(input, offset, fc): the best run over every back
\* offset (0 when shorter than 2) and fc with every best offset counted
find_match_frequency(input, offset, fc) ==
    LET runs == [b \in 1..lookback_size(offset) |->
                    tile_match_run(input, offset, b, 0)]
        best == IF \E b \in DOMAIN runs : runs[b] > 0
                THEN CHOOSE r \in {runs[b] : b \in DOMAIN runs} :
                        \A b \in DOMAIN runs : runs[b] <= r
                ELSE 0
    IN  IF best < 2 THEN [run |-> 0, fc |-> fc]
        ELSE [run |-> best,
              fc  |-> [b \in DOMAIN fc |->
                         IF b \in DOMAIN runs /\ runs[b] = best
                         THEN fc[b] + 1 ELSE fc[b]]]

\* step 1 of _make_offset_dictionary: the offset frequencies from idx on
RECURSIVE offset_freq_count(_, _, _)
offset_freq_count(tiles, idx, fc) ==
    IF idx >= Len(tiles) THEN fc
    ELSE LET r == find_match_frequency(tiles, idx, fc)
         IN  offset_freq_count(tiles,
                 IF r.run = 0 THEN idx + 1 ELSE idx + r.run, r.fc)

\* step 2 of _make_offset_dictionary: the counted offsets by descending
\* count, ties by ascending offset, appended until there are 14 entries
RECURSIVE add_offsets(_, _, _)
add_offsets(offsets, fc, cands) ==
    IF cands = {} \/ Len(offsets) >= 14 THEN offsets
    ELSE LET o == CHOOSE c \in cands :
                     \A p \in cands :
                        fc[p] < fc[c] \/ (fc[p] = fc[c] /\ c <= p)
         IN  add_offsets(
                 IF \E k \in DOMAIN offsets : offsets[k] = o
                 THEN offsets ELSE Append(offsets, o),
                 fc, cands \ {o})

\* _make_offset_dictionary(tiles)
make_offset_dictionary(tiles, width) ==
    LET fc   == offset_freq_count(tiles, 1, [b \in 1..Len(tiles) |-> 0])
        offs == add_offsets(<<0, 1, 2, width, width * 2, width + 1>>, fc,
                            {b \in DOMAIN fc : fc[b] > 0})
    IN  offs \o [k \in 1..(14 - Len(offs)) |-> 0]

\* the for loop of _find_match from dictionary entry i on
RECURSIVE find_match_loop(_, _, _, _, _)
find_match_loop(input, offset, back_offsets, i, ret) ==
    IF i >= Len(back_offsets) THEN ret
    ELSE LET b    == At(back_offsets, i)
             skip == b = 0 \/ b > lookback_size(offset)
             run  == IF skip THEN 0 ELSE tile_match_run(input, offset, b, 0)
         IN  find_match_loop(input, offset, back_offsets, i + 1,
                 IF run > ret[2] THEN <<i, run>> ELSE ret)

\* _find_match(input, offset, back_offsets): (back_offset_idx, run_length)
find_match(input, offset, back_offsets) ==
    LET ret == find_match_loop(input, offset, back_offsets, 0, <<0, 0>>)
    IN  IF ret[2] = 0 THEN <<0, 1>> ELSE ret

\* an LZ77 entry; vertical_info is empty when the entry has no such key
Lz77Entry(run_length, back_offset_idx, index) ==
    [run_length |-> run_length, back_offset_idx |-> back_offset_idx,
     index |-> index, vertical_info |-> <<>>]

\* the while loop of _lz77_compress
RECURSIVE lz77_compress_loop(_, _, _, _, _)
lz77_compress_loop(tiles, offsets, idx, entries, compressed) ==
    IF idx >= Len(tiles)
    THEN [entries |-> entries, compressed |-> compressed]
    ELSE
    LET m    == find_match(tiles, idx, offsets)
        n    == Len(entries)
        ents == IF m[1] # 0 \/ entries[n].back_offset_idx # 0
                THEN Append(entries, Lz77Entry(m[2], m[1], idx))
                ELSE [entries EXCEPT ![n].run_length = @ + 1]
        last == ents[Len(ents)]
    IN  IF last.back_offset_idx = 0
        THEN lz77_compress_loop(tiles, offsets, idx + 1, ents,
                 [compressed EXCEPT ![idx + 1] = FALSE])
        ELSE lz77_compress_loop(tiles, offsets, idx + last.run_length, ents,
                 [k \in DOMAIN compressed |->
                     IF k - 1 >= idx /\ k - 1 < idx + last.run_length
                     THEN TRUE ELSE compressed[k]])

\* _lz77_compress(tiles, offsets)
lz77_compress(tiles, offsets) ==
    IF Len(tiles) = 0
    THEN [entries |-> <<Lz77Entry(1, 0, 0)>>, compressed |-> <<>>]
    ELSE lz77_compress_loop(tiles, offsets, 1, <<Lz77Entry(1, 0, 0)>>,
                            [k \in 1..Len(tiles) |-> FALSE])

\* the while loop of _encode_vertical_run for entry number index (from 1);
\* v holds count, right_offset, begin, next_idx and prev_idx
RECURSIVE encode_vertical_run_loop(_, _, _, _, _)
encode_vertical_run_loop(index, ntiles, width, entries, v) ==
    IF v.next_idx >= ntiles THEN entries
    ELSE
    LET next_idx == v.next_idx + width + v.right_offset
        found == {k \in index..Len(entries) :
                     /\ entries[k].index = next_idx
                     /\ entries[k].back_offset_idx
                           = entries[index].back_offset_idx}
    IN  IF found # {}
        THEN LET k == CHOOSE x \in found : \A y \in found : x <= y
             IN  encode_vertical_run_loop(index, ntiles, width,
                     [entries EXCEPT ![k].back_offset_idx = -1],
                     [v EXCEPT !.count = @ + 1, !.prev_idx = next_idx,
                               !.next_idx = next_idx])
        ELSE IF v.count > 0
        THEN encode_vertical_run_loop(index, ntiles, width,
                 [entries EXCEPT ![index].vertical_info =
                                    Append(@, <<v.right_offset, v.count>>)],
                 [v EXCEPT !.count = 0, !.begin = FALSE,
                           !.right_offset = 1 - @, !.next_idx = v.prev_idx])
        ELSE IF ~v.begin THEN entries
        ELSE encode_vertical_run_loop(index, ntiles, width, entries,
                 [v EXCEPT !.begin = FALSE, !.right_offset = 1 - @,
                           !.next_idx = v.prev_idx])

\* _encode_vertical_run(index, tiles, lz77_entries)
encode_vertical_run(index, ntiles, width, entries) ==
    encode_vertical_run_loop(index, ntiles, width, entries,
        [count |-> 0, right_offset |-> 0, begin |-> TRUE,
         next_idx |-> entries[index].index,
         prev_idx |-> entries[index].index])

\* the for loop of _identify_vertical_runs from entry number i on
RECURSIVE identify_vertical_runs_loop(_, _, _, _)
identify_vertical_runs_loop(i, ntiles, width, entries) ==
    IF i > Len(entries) THEN entries
    ELSE identify_vertical_runs_loop(i + 1, ntiles, width,
             IF entries[i].back_offset_idx # -1
             THEN encode_vertical_run(i, ntiles, width, entries)
             ELSE entries)

\* the entries that are not marked for deletion, in order
RECURSIVE drop_deleted(_)
drop_deleted(entries) ==
    IF entries = <<>> THEN <<>>
    ELSE (IF Head(entries).back_offset_idx # -1
          THEN <<Head(entries)>> ELSE <<>>)
         \o drop_deleted(Tail(entries))

\* _identify_vertical_runs(tiles, lz77_entries)
identify_vertical_runs(ntiles, width, entries) ==
    drop_deleted(identify_vertical_runs_loop(1, ntiles, width, entries))

\* _get_tile_counts(tiles, compressed) from tile i on: the incrementing
\* counts as (base, count) pairs in insertion order.  The ranged counts are
\* read only by the rescoring in _calculate_long_tile_key, whose result is
\* never read, so they are not carried.
RECURSIVE get_tile_counts(_, _, _, _)
get_tile_counts(tiles, compressed, i, inc) ==
    IF i >= Len(tiles) THEN inc
    ELSE IF At(compressed, i)
    THEN get_tile_counts(tiles, compressed, i + 1, inc)
    ELSE LET tile   == At(tiles, i)
             bumped == [k \in DOMAIN inc |->
                          IF tile = inc[k][1] + inc[k][2]
                          THEN <<inc[k][1], inc[k][2] + 1>> ELSE inc[k]]
         IN  get_tile_counts(tiles, compressed, i + 1,
                 IF \E k \in DOMAIN bumped : bumped[k][1] = tile
                 THEN bumped ELSE Append(bumped, <<tile, 1>>))

\* _calculate_short_tile_key: the first base of the highest count
calculate_short_tile_key(inc) ==
    LET k == CHOOSE x \in DOMAIN inc :
                /\ \A y \in DOMAIN inc : inc[y][2] <= inc[x][2]
                /\ \A y \in DOMAIN inc : inc[y][2] = inc[x][2] => x <= y
    IN  inc[k][1]

\* max(incrementing_tile_counts.keys())
max_tile(inc) ==
    CHOOSE t \in {inc[k][1] : k \in DOMAIN inc} :
        \A k \in DOMAIN inc : inc[k][1] <= t

\* _calculate_long_tile_key for max_tile > 0: the first base that is at
\* least 1 << (max_tile.bit_length() - 1)
calculate_long_tile_key(inc) ==
    LET min_dict_entry == Shl(1, BitLength(max_tile(inc)) - 1)
        k == CHOOSE x \in DOMAIN inc :
                /\ inc[x][1] >= min_dict_entry
                /\ \A y \in DOMAIN inc : inc[y][1] >= min_dict_entry => x <= y
    IN  inc[k][1]

\* _make_tile_dictionary(tiles, compressed); 1 << -1 raises ValueError
make_tile_dictionary(tiles, compressed) ==
    LET inc == get_tile_counts(tiles, compressed, 0, <<>>)
    IN  IF inc = <<>>
        THEN [ok |-> FALSE, err |-> "IndexError", long |-> 0, short |-> 0]
        ELSE IF max_tile(inc) = 0
        THEN [ok |-> FALSE, err |-> "ValueError", long |-> 0,
              short |-> calculate_short_tile_key(inc)]
        ELSE [ok |-> TRUE, err |-> "",
              long |-> calculate_long_tile_key(inc),
              short |-> calculate_short_tile_key(inc)]

\* the for loop of _encode_tiles from tile i on, with the four encode
\* handlers; incr holds tile_increment
RECURSIVE encode_tiles(_, _, _, _, _)
encode_tiles(tiles, compressed, tile_dict, i, incr) ==
    IF i >= Len(tiles) THEN <<>>
    ELSE IF At(compressed, i)
    THEN encode_tiles(tiles, compressed, tile_dict, i + 1, incr)
    ELSE
    LET tile == At(tiles, i)
    IN  IF tile = tile_dict.short + incr.short
        THEN <<[mode |-> INCREMENT_SHORT_TILE, val |-> 0, len |-> 0]>>
             \o encode_tiles(tiles, compressed, tile_dict, i + 1,
                             [incr EXCEPT !.short = @ + 1])
        ELSE IF tile = tile_dict.long + incr.long
        THEN <<[mode |-> INCREMENT_LONG_TILE, val |-> 0, len |-> 0]>>
             \o encode_tiles(tiles, compressed, tile_dict, i + 1,
                             [incr EXCEPT !.long = @ + 1])
        ELSE IF tile_dict.short <= tile /\ tile < tile_dict.short + incr.short
        THEN <<[mode |-> DECODE_SHORT_TILE, val |-> tile - tile_dict.short,
                len |-> BitLength(incr.short)]>>
             \o encode_tiles(tiles, compressed, tile_dict, i + 1, incr)
        ELSE <<[mode |-> DECODE_LONG_TILE, val |-> tile,
                len |-> BitLength(tile_dict.long)]>>
             \o encode_tiles(tiles, compressed, tile_dict, i + 1, incr)

\* the index after the cells equal to heightmap[i] that follow cell i
run_end(heightmap, i) ==
    CHOOSE j \in (i + 1)..Len(heightmap) :
        /\ j < Len(heightmap) => At(heightmap, j) # At(heightmap, i)
        /\ \A k \in i..(j - 1) : At(heightmap, k) = At(heightmap, i)

\* _encode_heightmap(): (count, pattern) pairs, count the extra repeats.
\* The rounds of the for loop for cell i and the equal cells after it are
\* taken together: the first appends (0, height) unless the last pair has
\* this height, each other one adds 1 to the count of the last pair
RECURSIVE encode_heightmap(_, _, _)
encode_heightmap(heightmap, i, hm_buffer) ==
    IF i >= Len(heightmap) THEN hm_buffer
    ELSE LET height == At(heightmap, i)
             n      == Len(hm_buffer)
             cells  == run_end(heightmap, i) - i
         IN  encode_heightmap(heightmap, i + cells,
                 IF n = 0 \/ hm_buffer[n][2] # height
                 THEN Append(hm_buffer, <<cells - 1, height>>)
                 ELSE [hm_buffer EXCEPT ![n] = <<@[1] + cells, height>>])

\* Bits(uint=v, length=n) can be created
uint_fits(v, n) == n > 0 /\ v >= 0 /\ v < 2 ^ n

\* the bits of a list of (value, length) fields, or CreationError
RECURSIVE fields_bits(_)
fields_bits(fields) ==
    IF fields = <<>> THEN [ok |-> TRUE, err |-> "", bits |-> <<>>]
    ELSE LET f == Head(fields)
             r == fields_bits(Tail(fields))
         IN  IF ~uint_fits(f[1], f[2])
             THEN [ok |-> FALSE, err |-> "CreationError", bits |-> <<>>]
             ELSE IF ~r.ok THEN r
             ELSE [r EXCEPT !.bits = UintBits(f[1], f[2]) \o @]

\* _serialise_headers(bits, tile_dict, offsets)
serialise_headers(m, tile_dict, offsets) ==
    fields_bits(<< <<m.left, 8>>, <<m.top, 8>>, <<m.width - 1, 8>>,
                   <<m.height * 2 - 1, 8>>,
                   <<tile_dict.short, 10>>, <<tile_dict.long, 10>> >>
                \o [i \in 1..8 |-> <<At(offsets, 5 + i), 12>>])

\* _serialize_vertial_rle(bits, entry) from pair number k on
RECURSIVE serialize_vertial_rle(_, _)
serialize_vertial_rle(vertical_info, k) ==
    IF k > Len(vertical_info) THEN <<0>>
    ELSE <<IF k = 1 THEN vertical_info[k][1] ELSE 1>>
         \o [j \in 1..(vertical_info[k][2] - 1) |-> 1]
         \o <<0>>
         \o serialize_vertial_rle(vertical_info, k + 1)

\* the for loop of _serialise_lz77_data from entry number k on
RECURSIVE serialise_lz77_entries(_, _, _)
serialise_lz77_entries(entries, k, last_idx) ==
    IF k > Len(entries) THEN <<>>
    ELSE LET entry == entries[k]
         IN  ue_bits(entry.index - last_idx - 1)
             \o (IF entry.back_offset_idx < 6
                 THEN UintBits(entry.back_offset_idx, 3)
                 ELSE <<1, 1>> \o UintBits(entry.back_offset_idx - 6, 3))
             \o (IF entry.vertical_info # <<>>
                 THEN <<1>> \o serialize_vertial_rle(entry.vertical_info, 1)
                 ELSE <<0>>)
             \o serialise_lz77_entries(entries, k + 1, entry.index)

\* _serialise_lz77_data(bits, lz77_entries)
serialise_lz77_data(entries, buffer_size) ==
    LET last_idx == IF entries = <<>> THEN -1
                    ELSE entries[Len(entries)].index
    IN  serialise_lz77_entries(entries, 1, -1)
        \o (IF last_idx < buffer_size
            THEN ue_bits(buffer_size - last_idx) ELSE ue_bits(1))

\* the tile data of _serialise_maps: 2-bit mode and the value of modes 0, 1
RECURSIVE tile_entry_fields(_)
tile_entry_fields(tile_entries) ==
    IF tile_entries = <<>> THEN <<>>
    ELSE LET e == Head(tile_entries)
         IN  << <<e.mode, 2>> >>
             \o (IF e.mode \in {0, 1} THEN << <<e.val, e.len>> >> ELSE <<>>)
             \o tile_entry_fields(Tail(tile_entries))

\* the zero bits that byte-align a stream of n bits
align_bits(n) == [j \in 1..((8 - (n % 8)) % 8) |-> 0]

\* hm_count_fields with the while loop left at remaining = 0xFF
RECURSIVE hm_count_fields_late(_)
hm_count_fields_late(remaining) ==
    IF remaining > 255
    THEN << <<255, 8>> >> \o hm_count_fields_late(remaining - 255)
    ELSE << <<remaining, 8>> >>

\* the run-length bytes of _serialise_heightmap for a count
RECURSIVE hm_count_fields(_)
hm_count_fields(remaining) ==
    IF remaining >= 255
    THEN << <<255, 8>> >> \o hm_count_fields(remaining - 255)
    ELSE << <<remaining, 8>> >>

\* the for loop of _serialise_heightmap
RECURSIVE hm_entry_fields(_)
hm_entry_fields(hm_entries) ==
    IF hm_entries = <<>> THEN <<>>
    ELSE << <<Head(hm_entries)[2], 16>> >>
         \o hm_count_fields(Head(hm_entries)[1])
         \o hm_entry_fields(Tail(hm_entries))

\* _serialise(lz77_entries, tile_entries, tile_dictionary, offsets,
\* heightmap): headers, maps padded to a byte boundary, heightmap
serialise(m, lz77_entries, tile_entries, tile_dict, offsets, hm_entries) ==
    LET head  == serialise_headers(m, tile_dict, offsets)
        lz    == serialise_lz77_data(lz77_entries, m.width * m.height * 2)
        tls   == fields_bits(tile_entry_fields(tile_entries))
        maps  == head.bits \o lz \o tls.bits
        hm    == fields_bits(<< <<m.hm_width, 8>>, <<m.hm_height, 8>> >>
                             \o hm_entry_fields(hm_entries))
    IN  IF ~head.ok THEN head
        ELSE IF ~tls.ok THEN tls
        ELSE IF ~hm.ok THEN hm
        ELSE [ok |-> TRUE, err |-> "",
              bits |-> maps \o align_bits(Len(maps)) \o hm.bits]

\* Tilemap3D.encode(): the bytes, or the exception raised
Tilemap3D_encode(m) ==
    LET tiles == m.foreground \o m.background
        Serialised(dict, s) ==
            IF ~dict.ok THEN [ok |-> FALSE, err |-> dict.err, out |-> <<>>]
            ELSE IF ~s.ok THEN [ok |-> FALSE, err |-> s.err, out |-> <<>>]
            ELSE [ok |-> TRUE, err |-> "", out |-> BitsToBytes(s.bits)]
        WithDictionary(offsets, lz, dict) ==
            Serialised(dict,
                serialise(m,
                    identify_vertical_runs(Len(tiles), m.width, lz.entries),
                    encode_tiles(tiles, lz.compressed, dict, 0,
                                 [short |-> 0, long |-> 0]),
                    dict, offsets, encode_heightmap(m.heightmap, 0, <<>>)))
        WithEntries(offsets, lz) ==
            WithDictionary(offsets, lz,
                           make_tile_dictionary(tiles, lz.compressed))
        WithOffsets(offsets) == WithEntries(offsets, lz77_compress(tiles, offsets))
    IN  WithOffsets(make_offset_dictionary(tiles, m.width))

\* a failed read or index of the decoder at bit position pos
DecodeFail(err, buffer, pos) ==
    [ok |-> FALSE, err |-> err, buffer |-> buffer, pos |-> pos]

DecodeOk(buffer, pos) ==
    [ok |-> TRUE, err |-> "", buffer |-> buffer, pos |-> pos]

\* the nested while loops of _decode_vertical_rle from row_addr on; woff is
\* width_offset
RECURSIVE decode_vertical_rle_loop(_, _, _, _, _, _, _)
decode_vertical_rle_loop(bits, pos, buffer, dst_addr, width, row_addr, woff) ==
    LET row  == row_addr + width + woff
        more == read_uint(bits, pos, 1)
        next == read_uint(bits, more.pos, 1)
        buf  == [buffer EXCEPT ![row + 1] = At(buffer, dst_addr)]
    IN  IF row >= Len(buffer) THEN DecodeFail("IndexError", buffer, pos)
        ELSE IF ~more.ok THEN DecodeFail("ReadError", buf, pos)
        ELSE IF more.val = 1
        THEN decode_vertical_rle_loop(bits, more.pos, buf, dst_addr, width,
                                      row, woff)
        ELSE IF ~next.ok THEN DecodeFail("ReadError", buf, more.pos)
        ELSE IF next.val = 1
        THEN decode_vertical_rle_loop(bits, next.pos, buf, dst_addr, width,
                                      row, 1 - woff)
        ELSE DecodeOk(buf, next.pos)

\* _decode_vertical_rle with the first width_offset read and not used
decode_vertical_rle_straight(bits, pos, buffer, dst_addr, width) ==
    LET width_offset == read_uint(bits, pos, 1)
    IN  IF ~width_offset.ok THEN DecodeFail("ReadError", buffer, pos)
        ELSE decode_vertical_rle_loop(bits, width_offset.pos, buffer,
                 dst_addr, width, dst_addr, 0)

\* _decode_vertical_rle(bitstream, buffer, dst_addr)
decode_vertical_rle(bits, pos, buffer, dst_addr, width) ==
    LET width_offset == read_uint(bits, pos, 1)
    IN  IF ~width_offset.ok THEN DecodeFail("ReadError", buffer, pos)
        ELSE decode_vertical_rle_loop(bits, width_offset.pos, buffer,
                 dst_addr, width, dst_addr, width_offset.val)

\* the while loop of _decode_map_buffer_pass_one
RECURSIVE decode_pass_one_loop(_, _, _, _, _, _)
decode_pass_one_loop(bits, pos, width, offset_dictionary, buffer, dst_addr) ==
    LET start == read_ue(bits, pos)
        dst   == dst_addr + start.val + 1
        n     == read_uint(bits, start.pos, 3)
        low   == IF n.ok /\ n.val > 5 THEN read_uint(bits, n.pos, 2)
                 ELSE [ok |-> n.ok, val |-> 0, pos |-> n.pos]
        next_offset_idx == IF n.val > 5 THEN 6 + (n.val % 2) * 4 + low.val
                           ELSE n.val
        buf   == [buffer EXCEPT ![dst + 1] =
                                   At(offset_dictionary, next_offset_idx)]
        flag  == read_uint(bits, low.pos, 1)
        rle   == decode_vertical_rle(bits, flag.pos, buf, dst, width)
    IN  IF ~start.ok THEN DecodeFail("ReadError", buffer, pos)
        ELSE IF dst >= Len(buffer) THEN DecodeOk(buffer, start.pos)
        ELSE IF ~n.ok \/ ~low.ok THEN DecodeFail("ReadError", buffer, pos)
        ELSE IF ~flag.ok THEN DecodeFail("ReadError", buf, pos)
        ELSE IF flag.val = 0
        THEN decode_pass_one_loop(bits, flag.pos, width, offset_dictionary,
                                  buf, dst)
        ELSE IF ~rle.ok THEN rle
        ELSE decode_pass_one_loop(bits, rle.pos, width, offset_dictionary,
                                  rle.buffer, dst)

\* buffer[k] of Python for an index that may be negative; the index in range
py_index(buffer, k) == IF k < 0 THEN k + Len(buffer) ELSE k

\* the do-while loop of _handle_decode_lz77_across
RECURSIVE handle_decode_lz77_across(_, _, _)
handle_decode_lz77_across(buffer, buffer_idx, offset) ==
    LET src == py_index(buffer, offset)
        buf == [buffer EXCEPT ![buffer_idx + 1] = At(buffer, src)]
    IN  IF src < 0 \/ src >= Len(buffer)
        THEN [ok |-> FALSE, buffer |-> buffer, buffer_idx |-> buffer_idx]
        ELSE IF buffer_idx + 1 >= Len(buf) \/ At(buf, buffer_idx + 1) # 0
        THEN [ok |-> TRUE, buffer |-> buf, buffer_idx |-> buffer_idx + 1]
        ELSE handle_decode_lz77_across(buf, buffer_idx + 1, offset + 1)

\* DECODE_HANDLERS[command](decode_state): the value, the counters and the
\* position after the handler; counters and dictionary are (long, short)
decode_handler(command, bits, pos, tile_dictionary, tile_counters) ==
    LET long_r  == IF tile_counters[1] # 0
                   THEN read_uint(bits, pos, BitLength(tile_counters[1]))
                   ELSE [ok |-> TRUE, val |-> 0, pos |-> pos]
        short_r == IF tile_counters[2] # tile_dictionary[2]
                   THEN read_uint(bits, pos,
                            BitLength(tile_counters[2] - tile_dictionary[2]))
                   ELSE [ok |-> TRUE, val |-> 0, pos |-> pos]
    IN  IF command = DECODE_LONG_TILE
        THEN [ok |-> long_r.ok, value |-> long_r.val,
              counters |-> tile_counters, pos |-> long_r.pos]
        ELSE IF command = DECODE_SHORT_TILE
        THEN [ok |-> short_r.ok, value |-> short_r.val + tile_dictionary[2],
              counters |-> tile_counters, pos |-> short_r.pos]
        ELSE IF command = INCREMENT_LONG_TILE
        THEN [ok |-> TRUE, value |-> tile_counters[1],
              counters |-> <<tile_counters[1] + 1, tile_counters[2]>>,
              pos |-> pos]
        ELSE [ok |-> TRUE, value |-> tile_counters[2],
              counters |-> <<tile_counters[1], tile_counters[2] + 1>>,
              pos |-> pos]

\* the while loops of _decode_maps_pass_two; dict is tile_dictionary,
\* counters is tile_counters, literal is TRUE inside the inner loop that
\* reads tile commands
RECURSIVE decode_pass_two_loop(_, _, _, _, _, _, _)
decode_pass_two_loop(bits, pos, buffer, buffer_idx, dict, counters, literal) ==
    IF buffer_idx >= Len(buffer) THEN DecodeOk(buffer, pos)
    ELSE IF literal /\ At(buffer, buffer_idx) \notin {0, LITERAL_MARK}
    THEN decode_pass_two_loop(bits, pos, buffer, buffer_idx, dict,
                              counters, FALSE)
    ELSE IF ~literal /\ At(buffer, buffer_idx) # LITERAL_MARK
    THEN LET a == handle_decode_lz77_across(buffer, buffer_idx,
                      buffer_idx - At(buffer, buffer_idx))
         IN  IF ~a.ok THEN DecodeFail("IndexError", buffer, pos)
             ELSE decode_pass_two_loop(bits, pos, a.buffer, a.buffer_idx,
                      dict, counters, FALSE)
    ELSE LET command == read_uint(bits, pos, 2)
             h == decode_handler(command.val, bits, command.pos,
                                 dict, counters)
         IN  IF ~command.ok \/ ~h.ok THEN DecodeFail("ReadError", buffer, pos)
             ELSE decode_pass_two_loop(bits, h.pos,
                      [buffer EXCEPT ![buffer_idx + 1] = h.value],
                      buffer_idx + 1, dict, h.counters, TRUE)

\* bitstream.bytealign(): the position moved up to a byte boundary
bytealign(pos) == pos + ((8 - (pos % 8)) % 8)

\* the run-count bytes of _decode_heightmap: hm_rle_count after the reads
RECURSIVE read_hm_count(_, _, _)
read_hm_count(bits, pos, hm_rle_count) ==
    LET read_count == read_uint(bits, pos, 8)
    IN  IF ~read_count.ok THEN [ok |-> FALSE, val |-> 0, pos |-> pos]
        ELSE IF read_count.val = 255
        THEN read_hm_count(bits, read_count.pos, hm_rle_count + 255)
        ELSE [ok |-> TRUE, val |-> hm_rle_count + read_count.val,
              pos |-> read_count.pos]

\* the for loop of _decode_heightmap with n cells still to fill.  The round
\* that reads a pattern and its count and the rounds that only count
\* hm_rle_count down are taken together, at most n of them
RECURSIVE decode_heightmap_loop(_, _, _, _, _, _)
decode_heightmap_loop(bits, pos, n, hm_pattern, hm_rle_count, heightmap) ==
    LET Fill(cells, pattern, count, after) ==
            decode_heightmap_loop(bits, after, n - cells, pattern,
                                  count - cells,
                                  heightmap \o [k \in 1..cells |-> pattern])
        Read(pattern, count) ==
            IF ~pattern.ok \/ ~count.ok
            THEN DecodeFail("ReadError", heightmap, pos)
            ELSE Fill(Min(n, count.val), pattern.val, count.val, count.pos)
    IN  IF n = 0 THEN DecodeOk(heightmap, pos)
        ELSE IF hm_rle_count # 0
        THEN Fill(Min(n, hm_rle_count), hm_pattern, hm_rle_count, pos)
        ELSE Read(read_uint(bits, pos, 16),
                  read_hm_count(bits, read_uint(bits, pos, 16).pos, 1))

\* Tilemap3D.decode(src): the tilemap and the byte position returned
Tilemap3D_decode(src) ==
    LET bits   == BytesToBits(src)
        fail(e) == [ok |-> FALSE, err |-> e, map |-> NoMap3D, ret |-> 0]
        hdr(k) == read_uint(bits, 8 * k, 8).val
        width  == hdr(2) + 1
        height == (hdr(3) + 1) \div 2
        short  == read_uint(bits, 32, 10).val
        long   == read_uint(bits, 42, 10).val
        offset_dictionary ==
            <<LITERAL_MARK, 1, 2, width, width * 2, width + 1>>
            \o [i \in 1..8 |-> read_uint(bits, 52 + 12 * (i - 1), 12).val]
        size   == width * height
        Heightmap(two, hmw, hmh, hm) ==
            IF ~hm.ok THEN fail(hm.err)
            ELSE [ok |-> TRUE, err |-> "",
                  map |-> [left |-> hdr(0), top |-> hdr(1), width |-> width,
                           height |-> height,
                           foreground |-> SubSeq(two.buffer, 1, size),
                           background |-> SubSeq(two.buffer, size + 1,
                                                 size * 2),
                           hm_width |-> hmw.val, hm_height |-> hmh.val,
                           heightmap |-> hm.buffer],
                  ret |-> bytealign(hm.pos) \div 8]
        HeightmapSize(two, hmw, hmh) ==
            IF ~hmw.ok \/ ~hmh.ok THEN fail("ReadError")
            ELSE Heightmap(two, hmw, hmh,
                     decode_heightmap_loop(bits, hmh.pos, hmw.val * hmh.val,
                                           0, 0, <<>>))
        HeightmapWidth(two, hmw) ==
            HeightmapSize(two, hmw, read_uint(bits, hmw.pos, 8))
        PassTwo(two) ==
            IF ~two.ok THEN fail(two.err)
            ELSE HeightmapWidth(two, read_uint(bits, bytealign(two.pos), 8))
        PassOne(one) ==
            IF ~one.ok THEN fail(one.err)
            ELSE PassTwo(decode_pass_two_loop(bits, one.pos, one.buffer, 0,
                             <<long, short>>, <<long, short>>, FALSE))
    IN  IF Len(bits) < 148 THEN fail("ReadError")
        ELSE PassOne(decode_pass_one_loop(bits, 148, width, offset_dictionary,
                                          [k \in 1..(size * 2) |-> 0], -1))

(***************************************************************************)
(* Tilemap3D runs: a tilemap is encoded and the bytes are decoded.         *)
(***************************************************************************)
\* the most cells of a map layer
MaxCells3D == 3

T3Tiles == {0, 1, 2, 3}

\* (left, top, hm_width, hm_height, heightmap) of the tilemaps of a run
T3Frames ==
    { <<0, 0, 1, 1, <<0>> >>, <<3, 9, 2, 1, <<7, 7>> >>,
      <<0, 0, 1, 2, <<7, 256>> >> }

\* a Tilemap3D whose fields have been set for encode
Tilemap3DInit ==
    /\ t3_pc = "start"
    /\ \E w \in 1..MaxCells3D, h \in 1..MaxCells3D :
          /\ w * h <= MaxCells3D
          /\ \E fg \in [1..(w * h) -> T3Tiles], bg \in [1..(w * h) -> T3Tiles],
                f \in T3Frames :
                t3_map = [left |-> f[1], top |-> f[2], width |-> w,
                          height |-> h, foreground |-> fg, background |-> bg,
                          hm_width |-> f[3], hm_height |-> f[4],
                          heightmap |-> f[5]]
    /\ t3_data = NoResult
    /\ t3_decoded = NoDecoded3D
    /\ OthersIdle("tilemap3d")

Tilemap3DEncode ==
    /\ t3_pc = "start"
    /\ LET r == Tilemap3D_encode(t3_map)
       IN  /\ t3_data' = r
           /\ t3_pc' = IF r.ok THEN "encoded" ELSE "failed"
    /\ UNCHANGED <<t3_map, t3_decoded, t3Others>>

Tilemap3DDecode ==
    /\ t3_pc = "encoded"
    /\ t3_decoded' = Tilemap3D_decode(t3_data.out)
    /\ t3_pc' = "decoded"
    /\ UNCHANGED <<t3_map, t3_data, t3Others>>

Tilemap3DNext == Tilemap3DEncode \/ Tilemap3DDecode

SpecTilemap3D == Tilemap3DInit /\ [][Tilemap3DNext]_vars

(***************************************************************************)
(* Huffman string codec: src/tools/strings/huffman_trees.py and            *)
(* src/scripts/common/strings/huffman_tree.py.  A tree is held as its      *)
(* weight and its leaves in preorder, each leaf a (char, path) pair whose  *)
(* path is the bits from the root, 0 for left and 1 for right: the pairs   *)
(* are the entries of HuffmanTree.encoding in insertion order.  A dict is  *)
(* a sequence of (key, value) pairs in insertion order.                    *)
(***************************************************************************)
\* key in d
has_key(d, key) == \E k \in DOMAIN d : d[k][1] = key

\* d[key] for a key of d
dict_get(d, key) == d[CHOOSE k \in DOMAIN d : d[k][1] = key][2]

\* d after d[key] = value
dict_set(d, key, value) ==
    IF has_key(d, key)
    THEN [d EXCEPT ![CHOOSE k \in DOMAIN d : d[k][1] = key] = <<key, value>>]
    ELSE Append(d, <<key, value>>)

\* the inner for loop of _calculate_frequencies from char number i on
RECURSIVE count_string(_, _, _, _)
count_string(s, i, prev, frequencies) ==
    IF i > Len(s) THEN frequencies
    ELSE LET inner == IF has_key(frequencies, prev)
                      THEN dict_get(frequencies, prev) ELSE <<>>
             count == IF has_key(inner, s[i]) THEN dict_get(inner, s[i])
                      ELSE 0
         IN  count_string(s, i + 1, s[i],
                 dict_set(frequencies, prev,
                          dict_set(inner, s[i], count + 1)))

\* _calculate_frequencies(strings, eos_marker) from string number n on
RECURSIVE calculate_frequencies(_, _, _, _)
calculate_frequencies(strings, eos_marker, n, frequencies) ==
    IF n > Len(strings) THEN frequencies
    ELSE calculate_frequencies(strings, eos_marker, n + 1,
             count_string(strings[n], 1, eos_marker, frequencies))

\* (freq, Node) < (freq, Node) of the priority queue: the freq decides, and
\* for equal freq Node.__lt__ compares the same weights
item_lt(a, b) == a.weight < b.weight

\* heapq._siftdown(heap, startpos, pos) with newitem taken out of heap[pos]
RECURSIVE siftdown(_, _, _, _)
siftdown(heap, startpos, pos, newitem) ==
    IF pos > startpos /\ item_lt(newitem, At(heap, (pos - 1) \div 2))
    THEN siftdown([heap EXCEPT ![pos + 1] = At(heap, (pos - 1) \div 2)],
                  startpos, (pos - 1) \div 2, newitem)
    ELSE [heap EXCEPT ![pos + 1] = newitem]

\* nodes.put(item): heapq.heappush
heappush(heap, item) == siftdown(Append(heap, item), 0, Len(heap), item)

\* the smaller child of pos, the right one unless the left one is less
smaller_child(heap, pos) ==
    IF 2 * pos + 2 < Len(heap)
       /\ ~item_lt(At(heap, 2 * pos + 1), At(heap, 2 * pos + 2))
    THEN 2 * pos + 2 ELSE 2 * pos + 1

\* heapq._siftup(heap, pos) with newitem taken out of heap[pos]
RECURSIVE siftup(_, _, _)
siftup(heap, pos, newitem) ==
    IF 2 * pos + 1 < Len(heap)
    THEN siftup([heap EXCEPT ![pos + 1] = At(heap, smaller_child(heap, pos))],
                smaller_child(heap, pos), newitem)
    ELSE siftdown(heap, 0, pos, newitem)

\* nodes.get(): heapq.heappop of a non-empty heap
heappop(heap) ==
    IF Len(heap) = 1 THEN [item |-> heap[1], heap |-> <<>>]
    ELSE [item |-> heap[1],
          heap |-> siftup(SubSeq(heap, 1, Len(heap) - 1), 0,
                          heap[Len(heap)])]

\* Node(char, freq)
Leaf(char, freq) == [weight |-> freq, leaves |-> << <<char, <<>> >> >>]

\* a Node over left and right with weight left.weight + right.weight
Join(left, right) ==
    [weight |-> left.weight + right.weight,
     leaves |-> [k \in DOMAIN left.leaves |->
                    <<left.leaves[k][1], <<0>> \o left.leaves[k][2]>>]
                \o [k \in DOMAIN right.leaves |->
                    <<right.leaves[k][1], <<1>> \o right.leaves[k][2]>>]]

\* the for loop of recalculate_tree: every (char, freq) put in the queue
RECURSIVE put_nodes(_, _, _)
put_nodes(frequencies, k, heap) ==
    IF k > Len(frequencies) THEN heap
    ELSE put_nodes(frequencies, k + 1,
             heappush(heap, Leaf(frequencies[k][1], frequencies[k][2])))

\* one round of the while loop of recalculate_tree on first, the heap and
\* item after the first get
join_two(first) ==
    heappush(heappop(first.heap).heap,
             Join(first.item, heappop(first.heap).item))

\* the while loop of recalculate_tree and the final get
RECURSIVE join_nodes(_)
join_nodes(heap) ==
    IF Len(heap) > 1 THEN join_nodes(join_two(heappop(heap)))
    ELSE heap[1]

\* HuffmanTree(frequencies): recalculate_tree for a non-empty dict
recalculate_tree(frequencies) == join_nodes(put_nodes(frequencies, 1, <<>>))

\* recalculate_trees(strings, eos_marker): trees as a dict of context byte
\* and tree
recalculate_trees(strings, eos_marker) ==
    LET Trees(frequencies) ==
            [k \in DOMAIN frequencies |->
                <<frequencies[k][1], recalculate_tree(frequencies[k][2])>>]
    IN  Trees(calculate_frequencies(strings, eos_marker, 1, <<>>))

\* encode_char with every bit of the encoding inverted
encode_char_inverted(leaves, char) ==
    [k \in DOMAIN dict_get(leaves, char) |-> 1 - dict_get(leaves, char)[k]]

\* the bits encode_char(char, bits) appends: self.encoding[char]
encode_char(leaves, char) == dict_get(leaves, char)

\* the for loop of compress_string from char number i on
RECURSIVE compress_loop(_, _, _, _, _)
compress_loop(trees, text, i, last_char, compressed) ==
    IF i > Len(text) THEN [ok |-> TRUE, err |-> "", out |-> compressed]
    ELSE IF ~has_key(trees, last_char)
    THEN [ok |-> FALSE, err |-> "ValueError", out |-> <<>>]
    ELSE IF ~has_key(dict_get(trees, last_char).leaves, text[i])
    THEN [ok |-> FALSE, err |-> "KeyError", out |-> <<>>]
    ELSE compress_loop(trees, text, i + 1, text[i],
             compressed \o encode_char(dict_get(trees, last_char).leaves,
                                       text[i]))

\* compress_string(text, eos_marker): the bytes, or the exception
compress_string(trees, text, eos_marker) ==
    LET Done(r) ==
            IF ~r.ok THEN r
            ELSE IF text # <<>> /\ text[Len(text)] # eos_marker
            THEN [ok |-> FALSE, err |-> "ValueError", out |-> <<>>]
            ELSE [r EXCEPT !.out = BitsToBytes(@)]
    IN  Done(compress_loop(trees, text, 1, eos_marker, <<>>))

\* decode_char(bits) from the node at path: the char and the position, or
\* ReadError past the end, or AttributeError on a missing child
RECURSIVE decode_char(_, _, _, _)
decode_char(leaves, bits, pos, path) ==
    IF has_key([k \in DOMAIN leaves |-> <<leaves[k][2], leaves[k][1]>>], path)
    THEN [ok |-> TRUE, err |-> "", pos |-> pos,
          char |-> leaves[CHOOSE k \in DOMAIN leaves : leaves[k][2] = path][1]]
    ELSE IF pos >= Len(bits)
    THEN [ok |-> FALSE, err |-> "ReadError", pos |-> pos, char |-> 0]
    ELSE IF \E k \in DOMAIN leaves :
               /\ Len(leaves[k][2]) > Len(path)
               /\ SubSeq(leaves[k][2], 1, Len(path) + 1)
                     = Append(path, At(bits, pos))
    THEN decode_char(leaves, bits, pos + 1, Append(path, At(bits, pos)))
    ELSE [ok |-> FALSE, err |-> "AttributeError", pos |-> pos + 1, char |-> 0]

\* the while loop of decompress_string.  idle counts the chars decoded in a
\* row without reading a bit (from single-leaf trees); once it exceeds the
\* number of trees a context has come back at the same bit position and the
\* loop goes round forever: "NoReturn", with the chars appended so far
RECURSIVE decompress_loop(_, _, _, _, _, _, _)
decompress_loop(trees, bits, pos, eos_marker, last_char, decompressed, idle) ==
    IF ~has_key(trees, last_char)
    THEN [ok |-> FALSE, err |-> "ValueError", out |-> decompressed]
    ELSE IF idle > Len(trees)
    THEN [ok |-> FALSE, err |-> "NoReturn", out |-> decompressed]
    ELSE LET Next(c) ==
                 IF ~c.ok
                 THEN [ok |-> FALSE, err |-> c.err, out |-> decompressed]
                 ELSE IF c.char = eos_marker
                 THEN [ok |-> TRUE, err |-> "",
                       out |-> Append(decompressed, c.char)]
                 ELSE decompress_loop(trees, bits, c.pos, eos_marker, c.char,
                                      Append(decompressed, c.char),
                                      IF c.pos = pos THEN idle + 1 ELSE 0)
         IN  Next(decode_char(dict_get(trees, last_char).leaves, bits, pos,
                              <<>>))

\* decompress_string with the test for eos_marker made before the append
decompress_string_unterminated(trees, compressed, eos_marker) ==
    LET Cut(r) == IF r.ok THEN [r EXCEPT !.out = SubSeq(@, 1, Len(@) - 1)]
                  ELSE r
    IN  Cut(decompress_loop(trees, BytesToBits(compressed), 0, eos_marker,
                            eos_marker, <<>>, 0))

\* decompress_string(compressed, eos_marker)
decompress_string(trees, compressed, eos_marker) ==
    decompress_loop(trees, BytesToBits(compressed), 0, eos_marker, eos_marker,
                    <<>>, 0)

(***************************************************************************)
(* Tree serialization: encode_tree and decode_tree of huffman_tree.py,     *)
(* encode_trees and decode_trees of huffman_trees.py.  A node is named by  *)
(* its path from the root; the node at path is a leaf when a leaf has that *)
(* path, and it has a left (right) child when a leaf's path goes on with 0 *)
(* (1) after path.                                                         *)
(***************************************************************************)
\* p is the beginning of q
IsPrefix(p, q) == Len(p) <= Len(q) /\ SubSeq(q, 1, Len(p)) = p

\* the node at path has the child b (node.left for 0, node.right for 1)
has_child(leaves, path, b) ==
    \E k \in DOMAIN leaves : IsPrefix(Append(path, b), leaves[k][2])

\* encode_tree_preorder(node) for the node at path: the chars appended to
\* self.tree and the bits appended to self.bits
RECURSIVE encode_tree_preorder(_, _)
encode_tree_preorder(leaves, path) ==
    LET NoChild == [tree |-> <<>>, bits |-> <<>>]
        Left(l) == [tree |-> l.tree, bits |-> <<0>> \o l.bits]
        Both(l, r) == [tree |-> l.tree \o r.tree, bits |-> l.bits \o r.bits]
    IN  IF \E k \in DOMAIN leaves : leaves[k][2] = path
        THEN [tree |-> <<leaves[CHOOSE k \in DOMAIN leaves :
                                    leaves[k][2] = path][1]>>,
              bits |-> <<1>>]
        ELSE Both(IF has_child(leaves, path, 0)
                  THEN Left(encode_tree_preorder(leaves, Append(path, 0)))
                  ELSE NoChild,
                  IF has_child(leaves, path, 1)
                  THEN encode_tree_preorder(leaves, Append(path, 1))
                  ELSE NoChild)

\* list.reverse()
Reverse(s) == [k \in DOMAIN s |-> s[Len(s) + 1 - k]]

\* encode_tree(): bytes(self.tree) after the reverse, and bytes(self.bits)
encode_tree(leaves) ==
    [chrs |-> Reverse(encode_tree_preorder(leaves, <<>>).tree),
     bits |-> BitsToBytes(encode_tree_preorder(leaves, <<>>).bits)]

NoTables ==
    [ok |-> FALSE, err |-> "none", char_offsets |-> <<>>,
     encoded_trees |-> <<>>]

\* max(self.trees) of a non-empty dict
max_key(trees) ==
    CHOOSE m \in {trees[k][1] : k \in DOMAIN trees} :
        \A k \in DOMAIN trees : trees[k][1] <= m

\* the for loop of encode_trees from context i on; the rounds for the
\* contexts i..j-1 without a tree, j being the next context with one, are
\* taken together (each appends 0xFFFF to char_offsets)
RECURSIVE encode_trees_loop(_, _, _, _)
encode_trees_loop(trees, i, char_offsets, encoded_trees) ==
    LET Put(j, offsets, e) ==
            IF Len(encoded_trees) + Len(e.chrs) > 65535
            THEN [NoTables EXCEPT !.err = "OverflowError"]
            ELSE encode_trees_loop(trees, j + 1,
                     offsets
                        \o <<(Len(encoded_trees) + Len(e.chrs)) \div 256,
                             (Len(encoded_trees) + Len(e.chrs)) % 256>>,
                     encoded_trees \o e.chrs \o e.bits)
        Skip(j) ==
            Put(j, char_offsets \o [k \in 1..(2 * (j - i)) |-> 255],
                encode_tree(dict_get(trees, j).leaves))
    IN  IF i > max_key(trees)
        THEN [ok |-> TRUE, err |-> "", char_offsets |-> char_offsets,
              encoded_trees |-> encoded_trees]
        ELSE Skip(CHOOSE j \in i..max_key(trees) :
                     /\ has_key(trees, j)
                     /\ \A m \in i..(j - 1) : ~has_key(trees, m))

\* encode_trees(): the two byte strings, or the ValueError of max() of an
\* empty dict
encode_trees(trees) ==
    IF trees = <<>> THEN [NoTables EXCEPT !.err = "ValueError"]
    ELSE encode_trees_loop(trees, 0, <<>>, <<>>)

\* the inner while loop of decode_tree: up from node to the first node
\* without a right child, or to the root
RECURSIVE climb(_, _)
climb(node, nodes) ==
    IF node # <<>> /\ Append(node, 1) \in nodes
    THEN climb(SubSeq(node, 1, Len(node) - 1), nodes)
    ELSE node

\* the while True loop of decode_tree: node is the path of the current node,
\* nodes the paths of the nodes made so far, leaves the chars set so far
RECURSIVE decode_tree_loop(_, _, _, _, _, _, _)
decode_tree_loop(encoded_trees, bits, pos, next_chr, node, nodes, leaves) ==
    LET Fail(err) == [ok |-> FALSE, err |-> err, leaves |-> leaves]
        Done(lv) == [ok |-> TRUE, err |-> "", leaves |-> lv]
        Right(up, lv) ==
            IF up = <<>> /\ <<1>> \in nodes THEN Done(lv)
            ELSE decode_tree_loop(encoded_trees, bits, pos + 1, next_chr - 1,
                                  Append(up, 1), nodes \cup {Append(up, 1)},
                                  lv)
        SetChar(lv) ==
            IF node = <<>> THEN Done(lv)
            ELSE Right(climb(SubSeq(node, 1, Len(node) - 1), nodes), lv)
    IN  IF pos >= Len(bits) THEN Fail("ReadError")
        ELSE IF At(bits, pos) = 0
        THEN IF Append(node, 0) \in nodes THEN Fail("ValueError")
             ELSE decode_tree_loop(encoded_trees, bits, pos + 1, next_chr,
                                   Append(node, 0),
                                   nodes \cup {Append(node, 0)}, leaves)
        ELSE IF next_chr >= Len(encoded_trees)
                \/ next_chr < 0 - Len(encoded_trees)
        THEN Fail("IndexError")
        ELSE SetChar(Append(leaves,
                 <<At(encoded_trees, next_chr % Len(encoded_trees)), node>>))

\* decode_tree(encoded_trees, offset) on a new HuffmanTree: the leaves of the
\* tree, in the order update_encoding_table meets them
decode_tree(encoded_trees, offset) ==
    IF offset * 8 > 8 * Len(encoded_trees)
    THEN [ok |-> FALSE, err |-> "ValueError", leaves |-> <<>>]
    ELSE decode_tree_loop(encoded_trees, BytesToBits(encoded_trees),
                          offset * 8, offset - 1, <<>>, {}, <<>>)

\* the big-endian entry of context i in char_offsets
offset_at(char_offsets, i) ==
    Shl(At(char_offsets, i * 2), 8) + At(char_offsets, i * 2 + 1)

\* the for loop of decode_trees from context i on; the rounds for the
\* entries i..j-1 equal to 0xFFFF, j being the next other entry, are taken
\* together (they do nothing)
RECURSIVE decode_trees_loop(_, _, _, _)
decode_trees_loop(char_offsets, encoded_trees, i, trees) ==
    LET num_chars == Len(char_offsets) \div 2
        Put(j, t) ==
            IF ~t.ok THEN [ok |-> FALSE, err |-> t.err, trees |-> trees]
            ELSE decode_trees_loop(char_offsets, encoded_trees, j + 1,
                     dict_set(trees, j,
                              [weight |-> None, leaves |-> t.leaves]))
        Skip(j) == Put(j, decode_tree(encoded_trees,
                                      offset_at(char_offsets, j)))
    IN  IF \A j \in i..(num_chars - 1) : offset_at(char_offsets, j) = 65535
        THEN [ok |-> TRUE, err |-> "", trees |-> trees]
        ELSE Skip(CHOOSE j \in i..(num_chars - 1) :
                     /\ offset_at(char_offsets, j) # 65535
                     /\ \A m \in i..(j - 1) :
                           offset_at(char_offsets, m) = 65535)

\* decode_trees(char_offsets, encoded_trees): self.trees, or the exception
decode_trees(char_offsets, encoded_trees) ==
    decode_trees_loop(char_offsets, encoded_trees, 0, <<>>)

(***************************************************************************)
(* Huffman runs: trees are built from a list of strings, one string of the *)
(* list is compressed and the bytes are decompressed.                      *)
(***************************************************************************)
\* the most bytes of all strings of a run together
MaxTotal == 6

EOF_CHAR == 85

HuffChars == {1, 2, EOF_CHAR}

\* flat cut into strings after the positions of cuts
RECURSIVE Split(_, _, _, _)
Split(flat, cuts, i, cur) ==
    IF i > Len(flat) THEN (IF cur = <<>> THEN <<>> ELSE <<cur>>)
    ELSE IF i \in cuts
    THEN <<Append(cur, flat[i])>> \o Split(flat, cuts, i + 1, <<>>)
    ELSE Split(flat, cuts, i + 1, Append(cur, flat[i]))

NoTrees == [ok |-> FALSE, err |-> "none", trees |-> <<>>]

\* the strings of a run: the non-empty lines of the input file, none for a
\* file without one
HuffmanInit ==
    /\ hf_pc = "start"
    /\ \E flat \in SeqsUpTo(HuffChars, MaxTotal) :
          \E cuts \in SUBSET (1..(Len(flat) - 1)) :
             hf_strings = Split(flat, cuts, 1, <<>>)
    /\ hf_trees = <<>>
    /\ hf_text = <<>>
    /\ hf_compressed = NoResult
    /\ hf_decompressed = NoResult
    /\ hf_tables = NoTables
    /\ hf_parsed = NoTrees
    /\ OthersIdle("huffman")

\* hts.recalculate_trees(strings, eof_char)
HuffmanRecalculate ==
    /\ hf_pc = "start"
    /\ hf_trees' = recalculate_trees(hf_strings, EOF_CHAR)
    /\ hf_pc' = "built"
    /\ UNCHANGED <<hf_strings, hf_text, hf_compressed, hf_decompressed,
                   hf_tables, hf_parsed, hfOthers>>

\* hts.compress_string(e, eof_char) for a string e of the list, or for the
\* empty string that encode_string returns for an empty line (it adds
\* nothing to the frequencies, so the trees are the same with and without it)
HuffmanCompress ==
    /\ hf_pc = "built"
    /\ \E text \in {hf_strings[n] : n \in DOMAIN hf_strings} \cup {<<>>} :
          LET r == compress_string(hf_trees, text, EOF_CHAR)
          IN  /\ hf_text' = text
              /\ hf_compressed' = r
              /\ hf_pc' = IF r.ok THEN "compressed" ELSE "failed"
    /\ UNCHANGED <<hf_strings, hf_trees, hf_decompressed, hf_tables, hf_parsed,
                   hfOthers>>

\* compressed strings read from a file instead of written by compress_string
HuffData == { <<>>, <<0>>, <<255>>, <<108>> }

\* data = strings[n+1:n+strings[n]] of begin_decompress
HuffmanLoad ==
    /\ hf_pc = "built"
    /\ \E data \in HuffData :
          hf_compressed' = [ok |-> TRUE, err |-> "", out |-> data]
    /\ hf_pc' = "loaded"
    /\ UNCHANGED <<hf_strings, hf_trees, hf_text, hf_decompressed, hf_tables,
                   hf_parsed, hfOthers>>

\* hts.decompress_string(data, eof_char)
HuffmanDecompress ==
    /\ hf_pc \in {"compressed", "loaded"}
    /\ LET r == decompress_string(hf_trees, hf_compressed.out, EOF_CHAR)
       IN  /\ hf_decompressed' = r
           /\ hf_pc' = IF r.err = "NoReturn" THEN "decompressing"
                       ELSE "decompressed"
    /\ UNCHANGED <<hf_strings, hf_trees, hf_text, hf_compressed, hf_tables,
                   hf_parsed, hfOthers>>

\* offsets, trees = hts.encode_trees()
HuffmanEncodeTrees ==
    /\ hf_pc = "built"
    /\ hf_tables' = encode_trees(hf_trees)
    /\ hf_pc' = IF hf_tables'.ok THEN "encoded" ELSE "failed"
    /\ UNCHANGED <<hf_strings, hf_trees, hf_text, hf_compressed,
                   hf_decompressed, hf_parsed, hfOthers>>

\* hts.decode_trees(tree_offsets, tree_data) on the two files written
HuffmanDecodeTrees ==
    /\ hf_pc = "encoded"
    /\ hf_parsed' = decode_trees(hf_tables.char_offsets,
                                 hf_tables.encoded_trees)
    /\ hf_pc' = "parsed"
    /\ UNCHANGED <<hf_strings, hf_trees, hf_text, hf_compressed,
                   hf_decompressed, hf_tables, hfOthers>>

HuffmanNext ==
    \/ HuffmanRecalculate
    \/ HuffmanCompress
    \/ HuffmanLoad
    \/ HuffmanDecompress
    \/ HuffmanEncodeTrees
    \/ HuffmanDecodeTrees

SpecHuffman == HuffmanInit /\ [][HuffmanNext]_vars

(***************************************************************************)
(* Tilemap3D runs on fields set one by one, as start_compress of           *)
(* src/scripts/tilemap_iso.py sets them: width and height come from the    *)
(* foreground file, the background is read from a file of its own, and     *)
(* encode is called with no check in between.                              *)
(***************************************************************************)
T3FieldTiles == {0, 1}

\* a Tilemap3D whose foreground and background were set independently
Tilemap3DFieldsInit ==
    /\ t3_pc = "start"
    /\ \E w \in 1..MaxCells3D, h \in 1..MaxCells3D :
          /\ w * h <= MaxCells3D
          /\ \E fg \in SeqsUpTo(T3FieldTiles, MaxCells3D),
                bg \in SeqsUpTo(T3FieldTiles, MaxCells3D) :
                t3_map = [left |-> 0, top |-> 0, width |-> w, height |-> h,
                          foreground |-> fg, background |-> bg,
                          hm_width |-> 1, hm_height |-> 1,
                          heightmap |-> <<7>>]
    /\ t3_data = NoResult
    /\ t3_decoded = NoDecoded3D
    /\ OthersIdle("tilemap3d")

SpecTilemap3DFields == Tilemap3DFieldsInit /\ [][Tilemap3DNext]_vars

(***************************************************************************)
(* Tilemap3D runs on heightmaps with long runs: start_compress of          *)
(* src/scripts/tilemap_iso.py reads the heightmap from a file of its own,  *)
(* its first row giving hm_width and its row count hm_height.  The map     *)
(* layers are one cell each.                                               *)
(***************************************************************************)
\* (hm_width, hm_height) of the heightmaps
HmSizes ==
    { <<1, 1>>, <<2, 2>>, <<1, 255>>, <<16, 16>>, <<2, 255>>, <<7, 73>>,
      <<4, 128>>, <<255, 3>> }

\* the heights of the cells
HmHeights == {0, 255, 65535}

\* the cells before the change of height
HmCuts == {0, 1, 2, 254, 255, 256, 257, 509, 510, 511}

\* a heightmap of size cells: height a up to cell cut and b after it, or
\* height a but for b in cell cut
HmCells(size, cut, a, b, spike) ==
    [k \in 1..size |->
        IF spike THEN (IF k = cut THEN b ELSE a)
        ELSE (IF k <= cut THEN a ELSE b)]

Tilemap3DHeightmapInit ==
    /\ t3_pc = "start"
    /\ \E s \in HmSizes, cut \in HmCuts, a \in HmHeights, b \in HmHeights,
          spike \in BOOLEAN :
          t3_map = [left |-> 0, top |-> 0, width |-> 1, height |-> 1,
                    foreground |-> <<1>>, background |-> <<1>>,
                    hm_width |-> s[1], hm_height |-> s[2],
                    heightmap |-> HmCells(s[1] * s[2], cut, a, b, spike)]
    /\ t3_data = NoResult
    /\ t3_decoded = NoDecoded3D
    /\ OthersIdle("tilemap3d")

SpecTilemap3DHeightmap == Tilemap3DHeightmapInit /\ [][Tilemap3DNext]_vars

(***************************************************************************)
(* Tilemap2D runs on tilemaps of one long row: tiles without flags whose   *)
(* idx stays the same or goes up by one from tile to tile.                 *)
(***************************************************************************)
\* the widths of the long rows
T2RunWidths == 60..80

\* the idx of the first tile of a long row
T2RunStarts == {0, 5, 255}

\* the steps of idx from tile to tile
T2RunSteps == {0, 1}

Tilemap2DRunsInit ==
    /\ t2_pc = "start"
    /\ \E w \in T2RunWidths, first \in T2RunStarts, step \in T2RunSteps :
          t2_map = [width |-> w, height |-> 1,
                    tiles |-> [k \in 1..w |->
                                  [idx |-> first + step * (k - 1),
                                   hflip |-> FALSE, vflip |-> FALSE,
                                   priority |-> FALSE]]]
    /\ t2_data = NoResult
    /\ t2_decoded = NoTilemap
    /\ OthersIdle("tilemap2d")

SpecTilemap2DRuns == Tilemap2DRunsInit /\ [][Tilemap2DNext]_vars

\* rows whose tile indices reach the largest index of 11 bits
MaxRow == 4

T2EndIdx == {0, 2046, 2047}

\* Tilemap2D([row]) for one row of at most MaxRow tiles without attributes
Tilemap2DEndInit ==
    /\ t2_pc = "start"
    /\ \E w \in 1..MaxRow :
          \E row \in [1..w -> T2EndIdx] :
             t2_map = [width |-> w, height |-> 1,
                       tiles |-> [k \in 1..w |->
                                     [idx |-> row[k], hflip |-> FALSE,
                                      vflip |-> FALSE, priority |-> FALSE]]]
    /\ t2_data = NoResult
    /\ t2_decoded = NoTilemap
    /\ OthersIdle("tilemap2d")

SpecTilemap2DEnd == Tilemap2DEndInit /\ [][Tilemap2DNext]_vars

(***************************************************************************)
(* String banks: src/strings.py.  compress_func compresses the strings of  *)
(* a text file into a bank file and writes the two tree files;             *)
(* begin_decompress reads the three files back.                            *)
(***************************************************************************)
\* the for loop of compress_func over a chunk: one length byte and the data
\* for each compressed string; bytes([256]) raises ValueError
RECURSIVE write_bank(_)
write_bank(chunk) ==
    IF chunk = <<>> THEN [ok |-> TRUE, err |-> "", out |-> <<>>]
    ELSE LET rest == write_bank(Tail(chunk))
         IN  IF Len(Head(chunk)) + 1 > 255
             THEN [ok |-> FALSE, err |-> "ValueError", out |-> <<>>]
             ELSE IF ~rest.ok THEN rest
             ELSE [rest EXCEPT !.out = <<Len(Head(chunk)) + 1>>
                                       \o Head(chunk) \o @]

\* compressed_data of compress_func: hts.compress_string of every string
compressed_data(trees, strings) ==
    [n \in DOMAIN strings |-> compress_string(trees, strings[n], EOF_CHAR)]

\* compress_func from the encoded strings on: the bank file of the one
\* chunk, then the tree files
compress_func(strings) ==
    LET trees == recalculate_trees(strings, EOF_CHAR)
        Files(bank, tables) ==
            IF ~bank.ok
            THEN [NoFiles EXCEPT !.err = bank.err]
            ELSE [ok |-> tables.ok, err |-> tables.err, bank |-> bank.out,
                  char_offsets |-> tables.char_offsets,
                  encoded_trees |-> tables.encoded_trees]
        Written(data) ==
            IF \E n \in DOMAIN data : ~data[n].ok
            THEN [NoFiles EXCEPT !.err =
                     data[CHOOSE n \in DOMAIN data :
                             /\ ~data[n].ok
                             /\ \A m \in 1..(n - 1) : data[m].ok].err]
            ELSE Files(write_bank([n \in DOMAIN data |-> data[n].out]),
                       encode_trees(trees))
    IN  Written(compressed_data(trees, strings))

\* strings[n+1:n+strings[n]] of Python: the slice, cut at the end of strings
bank_slice(strings, n) ==
    SubSeq(strings, n + 2, Min(n + At(strings, n), Len(strings)))

\* the while loop of begin_decompress from index n on; data holds the slices
\* given to decompress_string and strs the byte strings it returned, which
\* decode_string turns into text one by one
RECURSIVE begin_decompress_loop(_, _, _, _, _)
begin_decompress_loop(trees, strings, n, data, strs) ==
    IF ~(n < Len(strings) - 1 /\ At(strings, n) \notin {0, 255})
    THEN [ok |-> TRUE, err |-> "", data |-> data, strs |-> strs]
    ELSE LET Step(d, r) ==
                 IF ~r.ok
                 THEN [ok |-> FALSE, err |-> r.err, data |-> Append(data, d),
                       strs |-> strs]
                 ELSE begin_decompress_loop(trees, strings,
                          n + At(strings, n), Append(data, d),
                          Append(strs, r.out))
             Slice(d) == Step(d, decompress_string(trees, d, EOF_CHAR))
         IN  Slice(bank_slice(strings, n))

\* begin_decompress(tree_offsets, tree_data, strings, charset)
begin_decompress(tree_offsets, tree_data, strings) ==
    LET Loop(parsed) ==
            IF ~parsed.ok
            THEN [ok |-> FALSE, err |-> parsed.err, data |-> <<>>,
                  strs |-> <<>>]
            ELSE begin_decompress_loop(parsed.trees, strings, 0, <<>>, <<>>)
    IN  Loop(decode_trees(tree_offsets, tree_data))

\* the most lines of the text file
MaxStrings == 3

\* the encoded lines: the empty line, lines that end in the eof char and a
\* line that does not
BankStrings ==
    { <<>>, <<EOF_CHAR>>, <<1, EOF_CHAR>>, <<2, EOF_CHAR>>,
      <<1, 2, EOF_CHAR>>, <<1, 1, EOF_CHAR>>, <<1>> }

BankInit ==
    /\ bk_pc = "start"
    /\ bk_strings \in SeqsUpTo(BankStrings, MaxStrings)
    /\ bk_files = NoFiles
    /\ bk_strs = NoStrs
    /\ OthersIdle("bank")

\* compress_func(args)
BankCompress ==
    /\ bk_pc = "start"
    /\ bk_files' = compress_func(bk_strings)
    /\ bk_pc' = IF bk_files'.ok THEN "written" ELSE "failed"
    /\ UNCHANGED <<bk_strings, bk_strs, bkOthers>>

\* decompress_func(args): begin_decompress on the three files
BankDecompress ==
    /\ bk_pc = "written"
    /\ bk_strs' = begin_decompress(bk_files.char_offsets,
                                   bk_files.encoded_trees, bk_files.bank)
    /\ bk_pc' = IF bk_strs'.err = "NoReturn" THEN "reading" ELSE "read"
    /\ UNCHANGED <<bk_strings, bk_files, bkOthers>>

BankNext == BankCompress \/ BankDecompress

SpecBank == BankInit /\ [][BankNext]_vars

(***************************************************************************)
(* Claims about the LZ77 codec.                                            *)
(***************************************************************************)
\* C1: LZ77 round trip: for every byte sequence x, LZ77_encode(x) returns a
\* byte string and the first component of LZ77_decode(LZ77_encode(x)) is x.
C1_LZ77RoundTrip ==
    /\ lz_pc # "failed"
    /\ (lz_pc = "decoded" /\ lz_encoded.ok)
          => (lz_decoded.ok /\ lz_decoded.out = lz_inbuf)

\* C6: LZ77 single literal: LZ77_encode of the one byte 0x41 returns the four
\* bytes 0x80 0x41 0x00 0x00, and LZ77_decode of those four bytes returns the
\* one byte 0x41.
C6_SingleLiteral ==
    /\ (lz_inbuf = <<65>> /\ lz_pc # "start")
          => (lz_encoded.ok /\ lz_encoded.out = <<128, 65, 0, 0>>)
    /\ (lz_pc = "decoded" /\ lz_stream = <<128, 65, 0, 0>>)
          => (lz_decoded.ok /\ lz_decoded.out = <<65>>)

\* C7: LZ77 run example: LZ77_encode of 0x41 x 5 produces a literal 0x41, one
\* back-reference packet with offset 1 and length 4, and the end packet, in
\* this order, with the first three command bits 1, 0, 0.
C7_RunExample ==
    (lz_inbuf = <<65, 65, 65, 65, 65>> /\ lz_pc \notin {"start", "loaded"})
       => /\ lz_encoded.ok
          /\ lz_encoded.entries = << Entry("byte", 65, 0), Entry("run", 4, 1),
                                     Entry("end", 0, 0) >>
          /\ Len(lz_encoded.out) = 6
          /\ SubSeq(UintBits(lz_encoded.out[1], 8), 1, 3) = <<1, 0, 0>>
          /\ lz_encoded.out[2] = 65
          /\ Shl(lz_encoded.out[3] - (lz_encoded.out[3] % 16), 4)
                + lz_encoded.out[4] = 1
          /\ 18 - (lz_encoded.out[3] % 16) = 4
          /\ lz_encoded.out[5] = 0 /\ lz_encoded.out[6] = 0

C7_Witness ==
    /\ lz_inbuf = <<65, 65, 65, 65, 65>>
    /\ lz_pc = "encoded"
    /\ Len(lz_encoded.entries) = 3

(***************************************************************************)
(* Claims about the blockset codec.                                        *)
(***************************************************************************)
AttrSeq(tiles, a) == [k \in 1..Len(tiles) |-> has_attr(tiles[k], a)]

\* C2: blockset attribute round trip: for every flat tile sequence of
\* length 4*N and each attribute a, the sequence of has_attr(a) over the
\* tiles returned by decompress(compress(tiles)) equals the sequence over the
\* input tiles, whatever the lengths of the on/off runs.
C2_AttrRoundTrip ==
    (Len(bs_tiles) % 4 = 0 /\ bs_pc \in {"failed", "decompressed"})
       => /\ bs_pc = "decompressed"
          /\ bs_decoded.ok
          /\ \A a \in Attr : AttrSeq(bs_decoded.tiles, a) = AttrSeq(bs_tiles, a)

ZeroBlock == <<NewTile, NewTile, NewTile, NewTile>>

\* C8 as stated: one block of four zero tiles is written as 0x00 0x01, three
\* exp-Golomb values 0 (three 1 bits), then the first tile as a 'new' literal
\* (bit 0 and eleven 0 bits) and sibling bit 0; decompress returns four zero
\* tiles.
C8_AsStated ==
    (bs_tiles = ZeroBlock /\ bs_pc \in {"compressed", "decompressed"})
       => /\ SubSeq(bs_stream.bits, 1, 16) = <<0,0,0,0,0,0,0,0,0,0,0,0,0,0,0,1>>
          /\ SubSeq(bs_stream.bits, 17, 19) = <<1, 1, 1>>
          /\ SubSeq(bs_stream.bits, 20, 31) = <<0,0,0,0,0,0,0,0,0,0,0,0>>
          /\ bs_stream.bits[32] = 0
          /\ bs_pc = "decompressed" => bs_decoded.tiles = ZeroBlock

\* C8 (amended): one block of four zero tiles is written as 0x00 0x01, then
\* for each of the three masks the single exp-Golomb value 4 (bits 00101, one
\* off run over the 4 tiles), then every tile index as a hit on queue slot 0
\* (bit 1 and 0000), with sibling bit 0 inside each pair: the bytes
\* 00 01 29 4B 04 20 80.  decompress of them returns four zero tiles.
C8_MinimumExample ==
    (bs_tiles = ZeroBlock /\ bs_pc # "start")
       => /\ bs_stream.ok
          /\ bs_stream.bits =
                <<0,0,0,0,0,0,0,0,0,0,0,0,0,0,0,1>>
                \o <<0,0,1,0,1>> \o <<0,0,1,0,1>> \o <<0,0,1,0,1>>
                \o <<1,0,0,0,0>> \o <<0>> \o <<1,0,0,0,0>>
                \o <<1,0,0,0,0>> \o <<0>> \o <<1,0,0,0,0>>
          /\ BitsToBytes(bs_stream.bits) = <<0, 1, 41, 75, 4, 32, 128>>
          /\ bs_pc = "decompressed"
                => (bs_decoded.ok /\ bs_decoded.tiles = ZeroBlock)

C8_Witness ==
    /\ bs_tiles = ZeroBlock
    /\ bs_pc = "decompressed"
    /\ Len(bs_stream.bits) = 53

\* C10: blockset encode precondition: compress reports an error and returns
\* no output for every tile list whose length is not a multiple of 4.
C10_RejectsNonMultipleOf4 ==
    (Len(bs_tiles) % 4 # 0 /\ bs_pc # "start")
       => (bs_pc = "failed" /\ ~bs_stream.ok /\ bs_stream.bits = <<>>)


\* C3: whenever a tilemap of the claimed range has been compressed and the
\* bytes decompressed, the decompressed width, height and tile sequence are
\* those of the tilemap that was compressed.
C3_Tilemap2DRoundTrip ==
    t2_pc = "decompressed"
       => /\ t2_decoded.ok
          /\ t2_decoded.width = t2_map.width
          /\ t2_decoded.height = t2_map.height
          /\ t2_decoded.tiles = t2_map.tiles

\* the 2x2 tilemap whose four tiles have idx 5 and no attributes
Uniform2x2 ==
    [width |-> 2, height |-> 2,
     tiles |-> [k \in 1..4 |-> [NewTile EXCEPT !.idx = 5]]]

\* C9: once the 2x2 tilemap of four idx-5 tiles without attributes has been
\* compressed, the result is exactly the bytes 02 02 07 00 00 58 05 07 FF.
C9_Uniform2x2Bytes ==
    (t2_map = Uniform2x2 /\ t2_pc # "start")
       => /\ t2_data.ok
          /\ t2_data.out = <<2, 2, 7, 0, 0, 88, 5, 7, 255>>

C9_Witness ==
    /\ t2_map = Uniform2x2
    /\ t2_pc = "decompressed"
    /\ t2_data.ok
    /\ Len(t2_data.out) = 9

(***************************************************************************)
(* Claims about the Tilemap3D codec.                                       *)
(***************************************************************************)
\* C4: every tilemap of the claimed range is encoded, and whenever the
\* bytes have been decoded the decoded left, top, width, height, foreground,
\* background, hm_width, hm_height and heightmap are those of the tilemap
\* that was encoded.
C4_Tilemap3DRoundTrip ==
    /\ t3_pc # "failed"
    /\ t3_pc = "decoded" => (t3_decoded.ok /\ t3_decoded.map = t3_map)

(***************************************************************************)
(* Claims about the Huffman string codec.                                  *)
(***************************************************************************)
\* s contains eof exactly once, as its last byte
EndsWithOnlyEof(s, eof) ==
    /\ s # <<>>
    /\ \A k \in DOMAIN s : (s[k] = eof) <=> (k = Len(s))

\* the tree compress_string uses for char number i of text
ContextTree(i) ==
    dict_get(hf_trees, IF i = 1 THEN EOF_CHAR ELSE hf_text[i - 1])

\* C5: Huffman string round trip: for trees built by recalculate_trees from a
\* set of byte strings and for every string s of that set that contains
\* eof_char exactly once, as its last byte, compress_string(s, eof) returns
\* bytes and decompress_string of those bytes returns s, also when a context's
\* tree has a single leaf and therefore a zero-length code.
C5_HuffmanRoundTrip ==
    (hf_pc \in {"compressed", "failed", "decompressed"}
        /\ EndsWithOnlyEof(hf_text, EOF_CHAR))
       => /\ hf_compressed.ok
          /\ hf_pc = "decompressed"
                => (hf_decompressed.ok /\ hf_decompressed.out = hf_text)

\* a round trip of a string with a zero-length code from a single-leaf tree
\* and a code of one bit or more from another tree
C5_Witness ==
    /\ hf_pc = "decompressed"
    /\ EndsWithOnlyEof(hf_text, EOF_CHAR)
    /\ hf_decompressed.ok
    /\ hf_decompressed.out = hf_text
    /\ \E i \in DOMAIN hf_text : Len(ContextTree(i).leaves) = 1
    /\ \E i \in DOMAIN hf_text : Len(ContextTree(i).leaves) > 1

(***************************************************************************)
(* Claims about the Tilemap3D encoder's preconditions.                     *)
(***************************************************************************)
\* the foreground is empty, or foreground and background differ in length,
\* or they differ from width * height
MismatchedLayers(m) ==
    \/ m.foreground = <<>>
    \/ Len(m.foreground) # Len(m.background)
    \/ Len(m.foreground) # m.width * m.height

\* C11: Tilemap3D encode precondition: encode reports an error and returns no
\* bytes whenever the foreground is empty or the foreground and background
\* lists differ in length (or differ from width*height).
C11_EncodeRejectsMismatch ==
    (t3_pc # "start" /\ MismatchedLayers(t3_map))
       => (~t3_data.ok /\ t3_data.out = <<>>)

(***************************************************************************)
(* Claims about the Tilemap2D attribute section.                           *)
(***************************************************************************)
\* the lengths count + 1 of the runs _encode_tile_attributes measures from
\* tile idx on
RECURSIVE encoded_runs(_, _)
encoded_runs(tiles, idx) ==
    IF idx >= Len(tiles) THEN <<>>
    ELSE LET count == attr_run_count(tiles, idx, attr_byte(At(tiles, idx)), 0)
         IN  <<count + 1>> \o encoded_runs(tiles, idx + count + 1)

\* the numbers length + 1 of tiles that _decode_tile_attributes sets for the
\* records it reads from data[idx] up to the terminator or the end of data
RECURSIVE decoded_runs(_, _)
decoded_runs(data, idx) ==
    IF idx >= Len(data) THEN <<>>
    ELSE IF (At(data, idx) \div 4) % 2 = 1
    THEN <<(At(data, idx) % 4) + 1>> \o decoded_runs(data, idx + 1)
    ELSE IF idx + 1 >= Len(data) THEN <<>>
    ELSE IF Shl(At(data, idx) % 4, 8) + At(data, idx + 1) = 0 THEN <<>>
    ELSE <<Shl(At(data, idx) % 4, 8) + At(data, idx + 1) + 1>>
         \o decoded_runs(data, idx + 2)

RECURSIVE SumSeq(_)
SumSeq(s) == IF s = <<>> THEN 0 ELSE Head(s) + SumSeq(Tail(s))

\* C12: Tilemap2D attribute coverage: the attribute records written by
\* _encode_tile_attributes, when read by _decode_tile_attributes, each apply
\* to exactly as many tiles as the run the encoder measured, so that the
\* records together cover exactly W*H tiles before the 0x00 0x00 terminator.
C12_AttrCoverage ==
    (t2_pc # "start" /\ t2_data.ok)
       => /\ decoded_runs(t2_data.out, 2) = encoded_runs(t2_map.tiles, 0)
          /\ SumSeq(decoded_runs(t2_data.out, 2)) = t2_map.width * t2_map.height

(***************************************************************************)
(* Claims about the packets of an LZ77 stream.                             *)
(***************************************************************************)
\* the packets of the stream data as LZ77_decode reads them from byte idx
\* and command bit number n on, up to the first end packet or the end of
\* the data: command byte fetched every 8 packets, a literal for bit 1,
\* offset and length of a back-reference for bit 0
RECURSIVE packets(_, _, _, _, _)
packets(data, idx, cmd, n, entries) ==
    LET fetch == n % 8 = 0
        c     == IF fetch /\ idx < Len(data) THEN At(data, idx) ELSE cmd
        i1    == IF fetch THEN idx + 1 ELSE idx
    IN  IF i1 >= Len(data) THEN [entries |-> entries, idx |-> idx]
        ELSE IF UintBits(c, 8)[(n % 8) + 1] = 1
        THEN packets(data, i1 + 1, c, n + 1,
                     Append(entries, Entry("byte", At(data, i1), 0)))
        ELSE IF i1 + 1 >= Len(data) THEN [entries |-> entries, idx |-> idx]
        ELSE LET offset == Shl(At(data, i1) - (At(data, i1) % 16), 4)
                           + At(data, i1 + 1)
                 length == 18 - (At(data, i1) % 16)
             IN  IF offset = 0
                 THEN [entries |-> Append(entries, Entry("end", 0, 0)),
                       idx |-> i1 + 2]
                 ELSE packets(data, i1 + 2, c, n + 1,
                              Append(entries, Entry("run", length, offset)))

\* C13: LZ77 stream boundary: in every byte string returned by LZ77_encode the
\* packet sequence contains exactly one end packet (a back-reference with
\* offset 0), that packet is the last one and ends the byte string, and every
\* other back-reference packet has offset in 1..4095 and length in 3..18, the
\* offset and length the encoder chose.
C13_StreamBoundary ==
    (lz_pc \in {"encoded", "decoded"} /\ lz_encoded.ok)
       => LET p == packets(lz_encoded.out, 0, 0, 0, <<>>)
          IN  /\ p.idx = Len(lz_encoded.out)
              /\ p.entries # <<>>
              /\ p.entries = lz_encoded.entries
              /\ \A k \in DOMAIN p.entries :
                    /\ (p.entries[k].kind = "end") <=> (k = Len(p.entries))
                    /\ p.entries[k].kind = "run"
                          => /\ p.entries[k].b \in 1..MAX_OFFSET
                             /\ p.entries[k].a \in MIN_LEN_LIMIT..MAX_LEN_LIMIT

\* a returned stream of more than eight packets with a back-reference of the
\* longest length, another back-reference after it, and the end packet
C13_Witness ==
    /\ lz_pc = "encoded"
    /\ lz_encoded.ok
    /\ Len(lz_encoded.entries) > 8
    /\ \E j, k \in DOMAIN lz_encoded.entries :
          /\ j < k
          /\ lz_encoded.entries[j].kind = "run"
          /\ lz_encoded.entries[j].a = MAX_LEN_LIMIT
          /\ lz_encoded.entries[k].kind = "run"
    /\ packets(lz_encoded.out, 0, 0, 0, <<>>).entries = lz_encoded.entries

\* C14: Huffman decompression boundary: whenever decompress_string returns,
\* its result contains eof_char exactly once and that occurrence is the last
\* byte of the result.
C14_DecompressEndsAtEof ==
    (hf_pc = "decompressed" /\ hf_decompressed.ok)
       => EndsWithOnlyEof(hf_decompressed.out, EOF_CHAR)

\* a return with other bytes before the eof_char, from data that
\* compress_string did not write for this result
C14_Witness ==
    /\ hf_pc = "decompressed"
    /\ hf_decompressed.ok
    /\ Len(hf_decompressed.out) >= 3
    /\ hf_decompressed.out # hf_text
    /\ EndsWithOnlyEof(hf_decompressed.out, EOF_CHAR)

\* C15: Huffman compression precondition: compress_string reports an error for
\* every input whose last byte is not eof_char, including the empty input; it
\* returns compressed bytes only for inputs that end with eof_char.
C15_CompressRequiresEof ==
    (hf_pc \in {"compressed", "failed"}
        /\ (hf_text = <<>> \/ hf_text[Len(hf_text)] # EOF_CHAR))
       => ~hf_compressed.ok

\* C16: Tilemap2D bytes consumed: Tilemap2D.decompress returns the index of the
\* first byte after the 0x07 0xFF terminator of the tile-index section; for
\* an input produced by compress it returns the length of that input.
C16_BytesConsumed ==
    (t2_pc = "decompressed" /\ t2_decoded.ok)
       => t2_decoded.idx = Len(t2_data.out)

\* the number of bytes the packets before packet k of entries decode to
RECURSIVE decoded_before(_, _)
decoded_before(entries, k) ==
    IF k <= 1 THEN 0
    ELSE decoded_before(entries, k - 1)
         + (IF entries[k - 1].kind = "byte" THEN 1 ELSE entries[k - 1].a)

\* a back-reference packet of the stream has an offset greater than the
\* number of bytes decoded before it
ReachesBeforeStart(entries) ==
    \E k \in DOMAIN entries :
       /\ entries[k].kind = "run"
       /\ entries[k].b > decoded_before(entries, k)

\* the stream ends before an end packet has been read
EndsWithoutEndPacket(entries) ==
    entries = <<>> \/ entries[Len(entries)].kind # "end"

\* C17: LZ77 decoder errors: LZ77_decode ends with an error, and returns no
\* output, whenever a back-reference packet with nonzero offset has an offset
\* greater than the number of bytes decoded so far, and whenever the input
\* ends before an end packet (offset 0) has been read.
C17_DecoderErrors ==
    (lz_pc = "decoded"
        /\ LET p == packets(lz_stream, 0, 0, 0, <<>>)
           IN  ReachesBeforeStart(p.entries) \/ EndsWithoutEndPacket(p.entries))
       => (~lz_decoded.ok /\ lz_decoded.out = <<>>)

\* a decode that has ended with an error at a back-reference that follows
\* decoded bytes and reaches before the first of them
C17_Witness ==
    /\ lz_pc = "decoded"
    /\ ~lz_decoded.ok
    /\ lz_decoded.err = "IndexError"
    /\ LET p == packets(lz_stream, 0, 0, 0, <<>>)
       IN  /\ ReachesBeforeStart(p.entries)
           /\ ~EndsWithoutEndPacket(p.entries)
           /\ \E k \in DOMAIN p.entries :
                 /\ p.entries[k].kind = "run"
                 /\ decoded_before(p.entries, k) > 0
                 /\ p.entries[k].b > decoded_before(p.entries, k)

(***************************************************************************)
(* Claims about the attribute masks of a blockset stream.                  *)
(***************************************************************************)
\* the runs of one attribute mask as _mask_tiles reads them from bit pos on,
\* for n tiles: whether a run in the off state (off) or in the on state (on)
\* extends past tile n, and the position after the mask; set and num are
\* set_attr and num before the read
RECURSIVE mask_overruns(_, _, _, _, _, _, _)
mask_overruns(bits, pos, n, i, set, num, found) ==
    IF i >= n \/ ~read_ue(bits, pos).ok THEN [found EXCEPT !.pos = pos]
    ELSE LET len == num + read_ue(bits, pos).val
         IN  mask_overruns(bits, read_ue(bits, pos).pos, n, i + len, ~set, 1,
                 [off |-> found.off \/ (set /\ i + len > n),
                  on  |-> found.on \/ (~set /\ i + len > n),
                  pos |-> pos])

\* the overruns of the three masks of a stream
StreamOverruns(bits) ==
    LET n == 4 * read_uint(bits, 0, 16).val
        none == [off |-> FALSE, on |-> FALSE, pos |-> 16]
        p == mask_overruns(bits, 16, n, 0, TRUE, 0, none)
        v == mask_overruns(bits, p.pos, n, 0, TRUE, 0, none)
        h == mask_overruns(bits, v.pos, n, 0, TRUE, 0, none)
    IN  [off |-> p.off \/ v.off \/ h.off, on |-> p.on \/ v.on \/ h.on]

\* C18: Blockset attribute overflow: blockset decompress reports an error
\* whenever an attribute run read from the stream extends past the 4*N tiles
\* declared by the header, whether the run is in the 'attribute off' state or
\* in the 'attribute on' state.
C18_AttributeOverflow ==
    (bs_pc = "decompressed" /\ Len(bs_stream.bits) >= 16
        /\ (StreamOverruns(bs_stream.bits).off \/ StreamOverruns(bs_stream.bits).on))
       => ~bs_decoded.ok

(***************************************************************************)
(* Claims about the Huffman tree serialization.                            *)
(***************************************************************************)
\* the context bytes of a bundle
Contexts(trees) == {trees[k][1] : k \in DOMAIN trees}

\* the symbol -> bit path mapping of a tree, as a set of pairs
PathOf(tree) == {tree.leaves[k] : k \in DOMAIN tree.leaves}

\* the entry of context i in the offset table
OffsetEntry(char_offsets, i) ==
    At(char_offsets, 2 * i) * 256 + At(char_offsets, 2 * i + 1)

\* C19: Huffman tree serialization round trip.  For every bundle built by
\* recalculate_trees, encode_trees returns the two tables; the offset table
\* has max(key)+1 entries, 0xFFFF exactly for the contexts without a tree,
\* and the leaf symbols of each tree lie at offset-1, offset-2, ... in
\* preorder of the leaves; decode_trees of the two tables yields a tree for
\* exactly the same context bytes, each with the same mapping from symbol to
\* bit path as the original tree.
C19_TreeRoundTrip ==
    /\ (hf_pc \in {"encoded", "failed", "parsed"} /\ hf_tables.err # "none")
          => /\ hf_tables.ok
             /\ Len(hf_tables.char_offsets) = 2 * (max_key(hf_trees) + 1)
             /\ \A i \in 0..max_key(hf_trees) :
                   /\ (OffsetEntry(hf_tables.char_offsets, i) = 65535)
                         <=> (i \notin Contexts(hf_trees))
                   /\ i \in Contexts(hf_trees) =>
                         \A k \in DOMAIN dict_get(hf_trees, i).leaves :
                            At(hf_tables.encoded_trees,
                               OffsetEntry(hf_tables.char_offsets, i) - k)
                               = dict_get(hf_trees, i).leaves[k][1]
    /\ hf_pc = "parsed"
          => /\ hf_parsed.ok
             /\ Contexts(hf_parsed.trees) = Contexts(hf_trees)
             /\ \A i \in Contexts(hf_trees) :
                   PathOf(dict_get(hf_parsed.trees, i))
                      = PathOf(dict_get(hf_trees, i))

\* the round trip of C19 for the bundles with at least one tree
C19_NonEmptyRoundTrip == hf_trees # <<>> => C19_TreeRoundTrip

\* a bundle with a tree of three leaves and a missing context below the
\* largest one went through encode_trees and decode_trees
C19_Witness ==
    /\ hf_pc = "parsed"
    /\ hf_parsed.ok
    /\ \E k \in DOMAIN hf_trees : Len(hf_trees[k][2].leaves) = 3
    /\ Cardinality(Contexts(hf_trees)) >= 2
    /\ \E i \in 0..max_key(hf_trees) :
          OffsetEntry(hf_tables.char_offsets, i) = 65535

(***************************************************************************)
(* Claims about the Tilemap3D heightmap.                                   *)
(***************************************************************************)
\* the bytes 0xFF in a row from data[idx] on
RECURSIVE ff_bytes(_, _)
ff_bytes(data, idx) ==
    IF idx < Len(data) /\ At(data, idx) = 255
    THEN 1 + ff_bytes(data, idx + 1) ELSE 0

\* data from idx on read as runs: a 16-bit pattern, k bytes 0xFF and a byte
\* t < 0xFF each; whole is FALSE for a run that the end of data cuts short
RECURSIVE hm_runs(_, _)
hm_runs(data, idx) ==
    LET Run(k) ==
            IF idx + 2 + k >= Len(data)
            THEN << [whole |-> FALSE, pattern |-> 0, k |-> k, t |-> 0] >>
            ELSE << [whole |-> TRUE,
                     pattern |-> At(data, idx) * 256 + At(data, idx + 1),
                     k |-> k, t |-> At(data, idx + 2 + k)] >>
                 \o hm_runs(data, idx + 3 + k)
    IN  IF idx >= Len(data) THEN <<>> ELSE Run(ff_bytes(data, idx + 2))

\* the cells the runs stand for: 255*k + t + 1 copies of each pattern
RECURSIVE hm_cells(_)
hm_cells(runs) ==
    IF runs = <<>> THEN <<>>
    ELSE [c \in 1..(255 * Head(runs).k + Head(runs).t + 1) |->
             Head(runs).pattern] \o hm_cells(Tail(runs))

\* the number of places where the height changes from one cell to the next
changes(heightmap) ==
    Cardinality({c \in 1..(Len(heightmap) - 1) :
                    heightmap[c] # heightmap[c + 1]})

\* the heightmap part of the encoded bytes: hm_width, hm_height and the runs
hm_part(m, out) ==
    SubSeq(out,
           Len(out) + 1
              - Len(fields_bits(<< <<m.hm_width, 8>>, <<m.hm_height, 8>> >>
                       \o hm_entry_fields(encode_heightmap(m.heightmap, 0,
                                                           <<>>))).bits)
                   \div 8,
           Len(out))

\* part is hm_width, hm_height and runs, one run for every stretch of equal
\* cells of the heightmap, that stand for its cells
is_rle_of(m, part, runs) ==
    /\ At(part, 0) = m.hm_width
    /\ At(part, 1) = m.hm_height
    /\ \A r \in DOMAIN runs : runs[r].whole
    /\ Len(runs) = changes(m.heightmap) + 1
    /\ hm_cells(runs) = m.heightmap

\* C20: Tilemap3D heightmap RLE.  The heightmap part of the encoded bytes is
\* hm_width, hm_height and one run for every stretch of equal cells, each a
\* 16-bit pattern, k bytes 0xFF and a byte t < 0xFF that stand for
\* 255*k + t + 1 copies of the pattern; and decode of the encoded bytes
\* returns the same hm_width, hm_height and heightmap.
C20_HeightmapRLE ==
    /\ t3_pc \in {"encoded", "failed", "decoded"}
          => /\ t3_data.ok
             /\ is_rle_of(t3_map, hm_part(t3_map, t3_data.out),
                          hm_runs(hm_part(t3_map, t3_data.out), 2))
    /\ t3_pc = "decoded"
          => /\ t3_decoded.ok
             /\ t3_decoded.map.hm_width = t3_map.hm_width
             /\ t3_decoded.map.hm_height = t3_map.hm_height
             /\ t3_decoded.map.heightmap = t3_map.heightmap
             /\ t3_decoded.ret = Len(t3_data.out)

\* some run is k bytes 0xFF and the byte t
has_run(runs, k, t) == \E r \in DOMAIN runs : runs[r].k = k /\ runs[r].t = t

\* a heightmap with a run of 255 cells and a run of 256 cells was encoded and
\* decoded
C20_Witness ==
    /\ t3_pc = "decoded"
    /\ t3_decoded.ok
    /\ has_run(hm_runs(hm_part(t3_map, t3_data.out), 2), 0, 254)
    /\ has_run(hm_runs(hm_part(t3_map, t3_data.out), 2), 1, 0)

(***************************************************************************)
(* Claims about the LZ77 encoder's choice of packets.                      *)
(***************************************************************************)
\* the bytes of inbuf at start that equal the bytes offset places before
\* them, at most MAX_LEN_LIMIT and at most the rest of the input
match_at(inbuf, start, offset) ==
    CHOOSE n \in 0..Min(MAX_LEN_LIMIT, Len(inbuf) - start) :
        /\ \A k \in 0..(n - 1) :
              At(inbuf, start + k) = At(inbuf, start + k - offset)
        /\ n < Min(MAX_LEN_LIMIT, Len(inbuf) - start)
              => At(inbuf, start + n) # At(inbuf, start + n - offset)

\* the length of the best match at start: the longest one within the window
best_match(inbuf, start) ==
    IF start >= Len(inbuf) \/ start = 0 THEN 0
    ELSE CHOOSE n \in {match_at(inbuf, start, o) :
                          o \in 1..Min(start, MAX_OFFSET)} :
            \A o \in 1..Min(start, MAX_OFFSET) :
               match_at(inbuf, start, o) <= n

\* the packets of lazy matching from position i on, each with its byte or
\* its length
RECURSIVE lazy_packets(_, _)
lazy_packets(inbuf, i) ==
    IF i >= Len(inbuf) THEN << <<"end", 0>> >>
    ELSE IF best_match(inbuf, i) < 3
    THEN << <<"byte", At(inbuf, i)>> >> \o lazy_packets(inbuf, i + 1)
    ELSE IF best_match(inbuf, i + 1) > best_match(inbuf, i)
    THEN << <<"byte", At(inbuf, i)>>, <<"run", best_match(inbuf, i + 1)>> >>
         \o lazy_packets(inbuf, i + 1 + best_match(inbuf, i + 1))
    ELSE << <<"run", best_match(inbuf, i)>> >>
         \o lazy_packets(inbuf, i + best_match(inbuf, i))

\* C21: LZ77 lazy matching.  The encoder returns, and its packets are those
\* of lazy matching: at every position it reaches a literal when the best
\* match is shorter than 3, else the match there unless the best match one
\* byte later (up to and including the end of the input) is strictly longer,
\* and then a literal and that match.
C21_LazyMatching ==
    lz_pc \in {"encoded", "failed", "decoded"} /\ lz_encoded.err # "none"
       => /\ lz_encoded.ok
          /\ [k \in DOMAIN lz_encoded.entries |->
                <<lz_encoded.entries[k].kind, lz_encoded.entries[k].a>>]
                = lazy_packets(lz_inbuf, 0)

(***************************************************************************)
(* Claims about the Tilemap2D tile-index commands.                         *)
(***************************************************************************)
\* the command a handler wrote: the mode selected, the tiles it covers less
\* one, and the first byte appended to the data
command_of(mode, es, after) ==
    [mode |-> mode, count |-> after.tile_idx - es.tile_idx - 1,
     at |-> es.tile_idx, byte |-> after.data[Len(es.data) + 1]]

\* the commands of _encode_tile_indices from the state es on
RECURSIVE encode_commands(_, _)
encode_commands(tiles, es) ==
    IF es.tile_idx >= Len(tiles) THEN <<>>
    ELSE <<command_of(select_mode(tiles, es), es,
                      encode_handler(tiles, es, select_mode(tiles, es)))>>
         \o encode_commands(tiles,
                encode_handler(tiles, es, select_mode(tiles, es)))

\* the encode state _encode_tile_indices starts with
first_state(tiles) ==
    [data |-> <<>>, tile_idx |-> 0, last |-> At(tiles, 0).idx,
     incr |-> At(tiles, 0).idx]

\* the commands of _encode_tile_indices: the RLE_TILE_RUN written first,
\* then those of the while loop
tile_commands(tiles) ==
    <<command_of(RLE_TILE_RUN, first_state(tiles),
                 handle_encode_rle_tile_run(tiles, first_state(tiles)))>>
    \o encode_commands(tiles,
           handle_encode_rle_tile_run(tiles, first_state(tiles)))

\* C22: Tilemap2D run-count bounds.  Every RLE_LAST_RUN and
\* RLE_INCREMENT_RUN command the encoder emits has a count of at most 0x3F
\* and every RLE_TILE_RUN a count of at most 7; the byte emitted has the
\* mode selected in its top two bits and the count below them.
C22_RunCountBounds ==
    t2_pc \in {"compressed", "decompressed"}
       => \A c \in DOMAIN tile_commands(t2_map.tiles) :
             LET cmd == tile_commands(t2_map.tiles)[c]
             IN  /\ cmd.byte \in 0..255
                 /\ cmd.byte - (cmd.byte % 64) = cmd.mode
                 /\ cmd.mode \in {RLE_LAST_RUN, RLE_INCREMENT_RUN}
                       => cmd.count <= 63 /\ cmd.byte % 64 = cmd.count
                 /\ cmd.mode = RLE_TILE_RUN
                       => cmd.count <= 7 /\ (cmd.byte \div 8) % 8 = cmd.count

\* the bytes _encode_tile_indices appends for the tiles: the commands, then
\* the end marker
tile_section(tiles) == encode_tile_indices(tiles, <<>>)

\* the commands of the encoder that are a COPY_TILE of the 11-bit value 0x7FF
end_copies(tiles) ==
    { c \in DOMAIN tile_commands(tiles) :
         /\ tile_commands(tiles)[c].mode = COPY_TILE
         /\ tile_commands(tiles)[c].byte = 7
         /\ tiles[tile_commands(tiles)[c].at + 1].idx % 256 = 255 }

\* the state in which the loop of _decode_tile_indices leaves, started at the
\* first byte of the tile-index section of data
decoder_end(tiles, data) ==
    decode_indices_loop(data, [k \in 1..Len(tiles) |-> NewTile],
        [data_idx |-> Len(data) - Len(tile_section(tiles)), tile_idx |-> 0,
         last |-> None, incr |-> None, done |-> FALSE])

\* C23: Tilemap2D terminator.  The tile-index section of a compressed
\* tilemap holds one COPY_TILE of the value 0x7FF only, as its last two
\* bytes 0x07 0xFF, and the decoder sets done at these two bytes and nowhere
\* before them.
C23_Terminator ==
    t2_pc \in {"compressed", "decompressed"}
       => /\ end_copies(t2_map.tiles) = {}
          /\ SubSeq(t2_data.out, Len(t2_data.out) - 1, Len(t2_data.out))
                = <<7, 255>>
          /\ decoder_end(t2_map.tiles, t2_data.out).ok
          /\ decoder_end(t2_map.tiles, t2_data.out).idx = Len(t2_data.out)

\* the tile dictionary and the tile symbols Tilemap3D.encode makes for m
tile_symbols(m) ==
    LET tiles == m.foreground \o m.background
        Entries(dict, lz) ==
            [dict |-> dict,
             entries |-> encode_tiles(tiles, lz.compressed, dict, 0,
                                      [short |-> 0, long |-> 0])]
        Dict(lz) == Entries(make_tile_dictionary(tiles, lz.compressed), lz)
    IN  Dict(lz77_compress(tiles, make_offset_dictionary(tiles, m.width)))

\* tile_counters of the decoder when it reads symbol number k: the
\* dictionary, raised by the increment symbols before k
counters_at(s, k) ==
    <<s.dict.long + Cardinality({j \in 1..(k - 1) :
                        s.entries[j].mode = INCREMENT_LONG_TILE}),
      s.dict.short + Cardinality({j \in 1..(k - 1) :
                        s.entries[j].mode = INCREMENT_SHORT_TILE})>>

\* the payload bits the decode handler of symbol number k reads
bits_read(s, k) ==
    decode_handler(s.entries[k].mode, [j \in 1..16 |-> 0], 0,
                   <<s.dict.long, s.dict.short>>, counters_at(s, k)).pos

\* C24: Tilemap3D tile-symbol payload width.  For every DECODE_LONG_TILE and
\* DECODE_SHORT_TILE symbol the encoder emits, the payload bits it writes
\* are as many as the decoder reads for that symbol with its counters after
\* the increment symbols before it.
C24_PayloadWidth ==
    t3_pc \in {"encoded", "decoded"}
       => \A k \in DOMAIN tile_symbols(t3_map).entries :
             tile_symbols(t3_map).entries[k].mode
                   \in {DECODE_LONG_TILE, DECODE_SHORT_TILE}
                => tile_symbols(t3_map).entries[k].len
                      = bits_read(tile_symbols(t3_map), k)

\* the tile list of m, its offset dictionary and the entries of
\* _lz77_compress before and after _identify_vertical_runs
lz77_section(m) ==
    LET tiles == m.foreground \o m.background
        Merged(offsets, entries) ==
            [offsets |-> offsets, entries |-> entries,
             merged |-> identify_vertical_runs(Len(tiles), m.width, entries)]
        Entries(offsets) == Merged(offsets, lz77_compress(tiles, offsets).entries)
    IN  Entries(make_offset_dictionary(tiles, m.width))

\* the offset dictionary _decode_dictionaries reads from the headers
decoder_offsets(m, offsets) ==
    <<LITERAL_MARK, 1, 2, m.width, m.width * 2, m.width + 1>>
    \o SubSeq(offsets, 7, 14)

\* the bits _serialise_lz77_data writes for the section s of m
lz77_bits(m, s) == serialise_lz77_data(s.merged, m.width * m.height * 2)

\* _decode_map_buffer_pass_one on the bits of the section s of m
pass_one(m, s) ==
    decode_pass_one_loop(lz77_bits(m, s), 0, m.width,
        decoder_offsets(m, s.offsets),
        [k \in 1..(m.width * m.height * 2) |-> 0], -1)

\* the marker pass one has to leave in cell i: that of the entry starting
\* there, 0 when no entry starts there
marker(m, s, i) ==
    IF \E k \in DOMAIN s.entries : s.entries[k].index = i
    THEN LET k == CHOOSE x \in DOMAIN s.entries : s.entries[x].index = i
         IN  IF s.entries[k].back_offset_idx = 0 THEN LITERAL_MARK
             ELSE At(s.offsets, s.entries[k].back_offset_idx)
    ELSE 0

starts(entries) == {entries[k].index : k \in DOMAIN entries}

markers_of(m, s, one) ==
    /\ one.ok
    /\ one.pos = Len(lz77_bits(m, s))
    /\ Len(one.buffer) = m.width * m.height * 2
    /\ \A i \in 0..(Len(one.buffer) - 1) :
          /\ At(one.buffer, i) = marker(m, s, i)
          /\ At(one.buffer, i) # 0 <=> i \in starts(s.entries)
    /\ {i \in 0..(Len(one.buffer) - 1) : At(one.buffer, i) # 0}
          \ starts(s.merged)
       = starts(s.entries) \ starts(s.merged)

\* C25: Tilemap3D pass-one markers.  After pass one has read the LZ77
\* section the encoder writes for a tile list, the buffer is nonzero exactly
\* at the start indices of the entries of _lz77_compress before the vertical
\* runs were merged, with 0xFFFF for back_offset_idx 0 and the offset of the
\* entry otherwise; the cells the vertical RLE wrote are the indices of the
\* deleted entries; pass one stops at the terminating run length and writes
\* no cell outside the buffer.
C25_PassOneMarkers ==
    t3_pc # "start"
       => markers_of(t3_map, lz77_section(t3_map),
                     pass_one(t3_map, lz77_section(t3_map)))

\* an encoded map in which a vertical run replaced two entries
C25_Witness ==
    /\ t3_pc = "encoded"
    /\ Len(lz77_section(t3_map).entries)
          >= Len(lz77_section(t3_map).merged) + 2
    /\ \E k \in DOMAIN lz77_section(t3_map).merged :
          /\ lz77_section(t3_map).merged[k].back_offset_idx # 0
          /\ lz77_section(t3_map).merged[k].vertical_info # <<>>

(***************************************************************************)
(* Claims about the queue of the blockset codec.                           *)
(***************************************************************************)
\* the pair loop of compress from tile i on, as the index and the queue
\* after each call of _encode_tile, with the number of the tile
RECURSIVE encoder_queues(_, _, _)
encoder_queues(tiles, i, queue) ==
    IF i >= Len(tiles) THEN <<>>
    ELSE
    LET e1 == encode_tile(At(tiles, i).idx, queue)
        sibling == At(tiles, i + 1).idx
                     = At(tiles, i).idx
                       + (IF At(tiles, i).hflip THEN -1 ELSE 1)
        e2 == encode_tile(At(tiles, i + 1).idx, e1.queue)
    IN  <<[tile |-> i, idx |-> At(tiles, i).idx, queue |-> e1.queue]>>
        \o (IF sibling THEN encoder_queues(tiles, i + 2, e1.queue)
            ELSE <<[tile |-> i + 1, idx |-> At(tiles, i + 1).idx,
                    queue |-> e2.queue]>>
                 \o encoder_queues(tiles, i + 2, e2.queue))

\* the pair loop of decompress from tile i on, as the index and the queue
\* after each call of _decode_tile, with the number of the tile
RECURSIVE decoder_queues(_, _, _, _, _)
decoder_queues(ntiles, bits, pos, i, queue) ==
    IF i >= ntiles THEN <<>>
    ELSE
    LET t1 == decode_tile(bits, pos, queue)
        sb == read_uint(bits, t1.pos, 1)
        t2 == decode_tile(bits, sb.pos, t1.queue)
    IN  <<[tile |-> i, idx |-> t1.val, queue |-> t1.queue]>>
        \o (IF sb.val = 1
            THEN decoder_queues(ntiles, bits, sb.pos, i + 2, t1.queue)
            ELSE <<[tile |-> i + 1, idx |-> t2.val, queue |-> t2.queue]>>
                 \o decoder_queues(ntiles, bits, t2.pos, i + 2, t2.queue))

\* the bit position at which the tile indices of a stream of compress start
pairs_start(tiles) ==
    16 + Len(encode_mask(tiles, "PRIORITY")) + Len(encode_mask(tiles, "VFLIP"))
       + Len(encode_mask(tiles, "HFLIP"))

\* the bits decompress reads: those of the bytes of the stream
stream_bits(stream) == BytesToBits(BitsToBytes(stream.bits))

\* the three calls of _mask_tiles in decompress: whether they return, and the
\* bit position they leave the stream at
masks_end(ntiles, bits) ==
    LET Third(m1, m2, m3) ==
            [ok |-> m1.ok /\ m2.ok /\ m3.ok, pos |-> m3.pos]
        Second(m1, m2) ==
            Third(m1, m2, mask_tiles(m2.tiles, "HFLIP", bits, m2.pos))
        First(m1) == Second(m1, mask_tiles(m1.tiles, "VFLIP", bits, m1.pos))
    IN  First(mask_tiles([k \in 1..ntiles |-> NewTile], "PRIORITY", bits, 16))

\* decompress reaches the tile indices at the bit where compress started them
reads_indices(tiles, bits) ==
    /\ masks_end(Len(tiles), bits).ok
    /\ masks_end(Len(tiles), bits).pos = pairs_start(tiles)

lockstep(enc, dec) ==
    /\ Len(dec) = Len(enc)
    /\ \A k \in DOMAIN enc :
          /\ dec[k].tile = enc[k].tile
          /\ dec[k].idx = enc[k].idx
          /\ dec[k].queue = enc[k].queue
          /\ Len(enc[k].queue) = 16
          /\ Len(dec[k].queue) = 16

\* C26: Blockset MTF queue lockstep.  When decompress reads a stream that
\* compress wrote, after every tile index written by _encode_tile and read
\* by _decode_tile the two queues hold the same 16 values in the same order
\* and the index read is the index written; the tiles written as a sibling
\* bit are the tiles read as a sibling bit, and they change neither queue.
C26_QueueLockstep ==
    (bs_pc = "decompressed" /\ bs_stream = compress(bs_tiles)
        /\ reads_indices(bs_tiles, stream_bits(bs_stream)))
       => /\ lockstep(encoder_queues(bs_tiles, 0, InitialQueue),
                      decoder_queues(Len(bs_tiles), stream_bits(bs_stream),
                          masks_end(Len(bs_tiles), stream_bits(bs_stream)).pos,
                          0, InitialQueue))
          /\ bs_decoded.ok
          /\ [k \in DOMAIN bs_decoded.tiles |-> bs_decoded.tiles[k].idx]
                = [k \in DOMAIN bs_tiles |-> bs_tiles[k].idx]

\* a list whose indices pushed a nonzero index out of the queue, found an
\* index behind the front of the queue and used the sibling bit
evicted(enc) ==
    \E k \in DOMAIN enc :
       k > 1 /\ enc[k - 1].queue[16] # 0 /\ enc[k].queue[16] # enc[k - 1].queue[16]

moved(enc) ==
    \E k \in DOMAIN enc :
       k > 1 /\ enc[k].queue # enc[k - 1].queue
             /\ enc[k].queue[16] = enc[k - 1].queue[16]
             /\ enc[k - 1].queue[16] # 0

C26_Witness ==
    /\ bs_pc = "decompressed"
    /\ bs_stream = compress(bs_tiles)
    /\ reads_indices(bs_tiles, stream_bits(bs_stream))
    /\ evicted(encoder_queues(bs_tiles, 0, InitialQueue))
    /\ moved(encoder_queues(bs_tiles, 0, InitialQueue))
    /\ Len(encoder_queues(bs_tiles, 0, InitialQueue)) < Len(bs_tiles)

\* C27: Blockset decoded index range.  Every tile of the blocks decompress
\* returns has an index from 0 to 0x7FF, whatever stream it was given.
C27_IndexRange ==
    bs_pc = "decompressed" /\ bs_decoded.ok
       => \A k \in DOMAIN bs_decoded.tiles :
             bs_decoded.tiles[k].idx \in 0..2047

(***************************************************************************)
(* Claims about the end of a Huffman string.                               *)
(***************************************************************************)
\* text up to and including its first eof, all of it when it has none
to_first_eof(text, eof) ==
    IF \E k \in DOMAIN text : text[k] = eof
    THEN SubSeq(text, 1, CHOOSE k \in DOMAIN text :
                            /\ text[k] = eof
                            /\ \A j \in 1..(k - 1) : text[j] # eof)
    ELSE text

\* the bits the for loop of compress_string appends for text
written_bits(trees, text, eof) == compress_loop(trees, text, 1, eof, <<>>).out

\* C28: Huffman encoding stops at eof.  The bits compress_string writes are
\* the bit paths of the bytes of the input up to and including the first
\* eof_char; the bytes after it add no bits.
C28_StopsAtEof ==
    (hf_pc \in {"compressed", "decompressed", "decompressing"}
        /\ hf_compressed = compress_string(hf_trees, hf_text, EOF_CHAR))
       => /\ written_bits(hf_trees, hf_text, EOF_CHAR)
                = written_bits(hf_trees, to_first_eof(hf_text, EOF_CHAR),
                               EOF_CHAR)
          /\ hf_compressed.out
                = BitsToBytes(written_bits(hf_trees,
                                  to_first_eof(hf_text, EOF_CHAR), EOF_CHAR))

\* C29: Huffman decompression terminates.  Every call of decompress_string,
\* on trees built by recalculate_trees and any compressed input, returns a
\* string that ends in eof_char or reports an error: there is no call that
\* goes on decoding without end.
C29_Terminates ==
    /\ hf_pc # "decompressing"
    /\ hf_decompressed.err # "NoReturn"
    /\ hf_pc = "decompressed"
          => \/ ~hf_decompressed.ok
             \/ hf_decompressed.out[Len(hf_decompressed.out)] = EOF_CHAR

(***************************************************************************)
(* Claims about the string banks.                                          *)
(***************************************************************************)
\* the compressed strings compress_func wrote to the bank
payloads(strings) ==
    [n \in DOMAIN strings |->
        compress_string(recalculate_trees(strings, EOF_CHAR), strings[n],
                        EOF_CHAR).out]

\* C30: Huffman bank framing.  For a bank that compress_func wrote, of at
\* most 256 compressed strings of 0 to 254 bytes, begin_decompress returns
\* and the slices it gives to decompress_string are the compressed strings
\* written, all of them and in the same order, a last string with an empty
\* payload included.
C30_BankFraming ==
    bk_pc \in {"read", "reading"}
       => /\ bk_strs.ok
          /\ bk_strs.data = payloads(bk_strings)
          /\ Len(bk_strs.strs) = Len(bk_strings)

=============================================================================
